---------------------------- MODULE Spec2Model ----------------------------
(***************************************************************************)
(* A model of the analytics and recommendation engine of the AWS FinOps    *)
(* dashboard (src/aws_finops_dashboard):                                  *)
(*   - the dashboard run that groups profiles by account and merges them   *)
(*     (dashboard_runner._generate_dashboard_data, profile_processor),     *)
(*   - EC2 right-sizing (optimization_recommendations),                    *)
(*   - unused resources, RI and Savings-Plans advice and their summary     *)
(*     (optimization_recommendations, ri_optimizer),                       *)
(*   - cost anomaly detection (anomaly_detection).                         *)
(*                                                                         *)
(* Money is kept in integers: the dashboard's costs in thousandths of a    *)
(* dollar (so the 0.001 materiality threshold is 1), hourly instance rates *)
(* and the optimization savings in ten-thousandths of a dollar (0.0058 $/h *)
(* is 58), the RI optimizer's savings in hundred-thousandths.  Ratios that *)
(* the code computes with "/" are kept as exact fractions <<num, den>>.    *)
(*                                                                         *)
(* Each component has its own specification (SpecDash, SpecRightSizing,    *)
(* SpecAnomaly, SpecRI, SpecOptimize); the variables of the components     *)
(* that are not running keep their idle values.  Spec runs any one of      *)
(* them.                                                                   *)
(***************************************************************************)
EXTENDS Integers, Sequences, FiniteSets, TLC

VARIABLES
    \* ---- dashboard run (dashboard_runner._generate_dashboard_data)
    profiles_to_use,    \* the selected profiles, in input order
    combine,            \* args.combine
    gateway,            \* what the billing gateway answers for each profile
    account_profiles,   \* the insertion-ordered dict account id -> profiles
    export_data,        \* the list of ProfileData built so far
    dash_pc,            \* "idle" | "group" | "process" | "done"
    dash_i,             \* index of the next profile / account to handle
    \* ---- EC2 right-sizing (optimization_recommendations)
    running_instances,  \* describe_instances(running) with each one's CPU metric
    cpu_threshold,      \* the cpu_threshold argument, percent
    recommendations,    \* what analyze_ec2_right_sizing returned
    rs_pc,              \* "idle" | "call" | "done"
    \* ---- anomaly detection (anomaly_detection.detect_anomalies)
    sensitivity,        \* the sensitivity argument, in thousandths
    cost_history,       \* what the gateway holds: whether the query works,
                        \* and the daily costs of each service
    historical_data,    \* collect_historical_cost_data's result
    anomalies_by_service, \* detect_service_anomalies' dict, built so far
    anomaly_result,     \* the AnomalyResult returned
    an_pc,              \* "idle" | "call" | "detect" | "process" | "done" | "raised"
    an_i,               \* index of the next service of detect_service_anomalies
    \* ---- RI and Savings-Plans advice (ri_optimizer)
    lookback_period,    \* RIOptimizer.lookback_period, days
    ce_usage,           \* Cost Explorer's daily usage by instance type and
                        \* region, and whether each query for it works
    ce_savings_plans,   \* Cost Explorer's answer to
                        \* get_savings_plans_recommendation
    ri_recommendations, \* what get_ri_recommendations returned
    sp_recommendations, \* what get_savings_plan_recommendations returned
    ri_sp_result,       \* what get_ri_and_sp_recommendations returned
    usage_calls,        \* how many times analyze_usage_patterns was called
    ri_pc,              \* "idle" | "ri" | "sp" | "combine" | "done" | "raised"
    \* ---- generate_optimization_recommendations
    opt_flags,          \* analyze_ec2, analyze_resources, analyze_reservations,
                        \* analyze_savings_plans
    opt_account,        \* what EC2 and Cost Explorer answer for the account
    opt_result,         \* the OptimizationRecommendation being built
    opt_pc,             \* "idle" | "ec2" | "resources" | "reservations" |
                        \* "savings_plans" | "total" | "done"
    \* ---- UnusedResourceAnalyzer.analyze_ec2_instances (resource_analyzer)
    ec2_regions,        \* the regions to analyse: whether listing works and
                        \* the instances ec2.instances.all() gives
    analyzer_lookback,  \* UnusedResourceAnalyzer.lookback_period, days
    unused_instances,   \* the list being built
    stopped_date,       \* the local stopped_date: <<>> while unbound, else
                        \* <<hour>>
    ura_pc,             \* "idle" | "region" | "instance" | "done"
    ura_r,              \* index of the region of the outer loop
    ura_i,              \* index of the instance of the inner loop
    \* ---- background tasks (web_ui.run_task_thread, api._run_task)
    tasks,              \* the requests: entry point, task type, and what the
                        \* environment holds for the task
    task_results,       \* the global dict task type -> result
    sys_stdout,         \* the stream sys.stdout is bound to
    stream_text,        \* for each stream, who printed into it, in order
    old_stdout,         \* each thread's local old_stdout ("unbound" before)
    task_pc,            \* each thread: "idle" | "start" | "run" | "finish" |
                        \* "except" | "ended"
    status_reply,       \* what task_status answered last
    polls               \* how many times task_status was asked

rsVars == <<running_instances, cpu_threshold, recommendations, rs_pc>>

anVars == <<sensitivity, cost_history, historical_data, anomalies_by_service,
            anomaly_result, an_pc, an_i>>

dashVars == <<profiles_to_use, combine, gateway, account_profiles,
              export_data, dash_pc, dash_i>>

riVars == <<lookback_period, ce_usage, ce_savings_plans, ri_recommendations,
            sp_recommendations, ri_sp_result, usage_calls, ri_pc>>

optVars == <<opt_flags, opt_account, opt_result, opt_pc>>

uraVars == <<ec2_regions, analyzer_lookback, unused_instances, stopped_date,
             ura_pc, ura_r, ura_i>>

taskVars == <<tasks, task_results, sys_stdout, stream_text, old_stdout,
              task_pc, status_reply, polls>>

\* what each component leaves alone: the variables of the others
dashOthers == <<rsVars, anVars, riVars, optVars, uraVars, taskVars>>
rsOthers == <<dashVars, anVars, riVars, optVars, uraVars, taskVars>>
anOthers == <<dashVars, rsVars, riVars, optVars, uraVars, taskVars>>
riOthers == <<dashVars, rsVars, anVars, optVars, uraVars, taskVars>>
optOthers == <<dashVars, rsVars, anVars, riVars, uraVars, taskVars>>
uraOthers == <<dashVars, rsVars, anVars, riVars, optVars, taskVars>>
taskOthers == <<dashVars, rsVars, anVars, riVars, optVars, uraVars>>

-----------------------------------------------------------------------------
(* Generic helpers.                                                        *)

None == "None"

Range(s) == {s[i] : i \in 1..Len(s)}

\* the sum of the first n elements of s
RECURSIVE SumTo(_, _)
SumTo(s, n) == IF n = 0 THEN 0 ELSE s[n] + SumTo(s, n - 1)

SumSeq(s) == SumTo(s, Len(s))

RECURSIVE SeqsUpTo(_, _)
\* all sequences over S of length 0..n
SeqsUpTo(S, n) ==
    IF n = 0 THEN {<<>>}
    ELSE LET shorter == SeqsUpTo(S, n - 1)
         IN  shorter \cup {Append(q, x) : q \in {r \in shorter : Len(r) = n - 1}, x \in S}

\* list.sort(key=..., reverse=True) on a list of <<key, item>>: a stable sort,
\* highest key first; equal keys keep the order they had.
RECURSIVE InsertDesc(_, _)
InsertDesc(sorted, x) ==
    IF sorted = <<>> THEN <<x>>
    ELSE IF Head(sorted)[1] >= x[1]
         THEN <<Head(sorted)>> \o InsertDesc(Tail(sorted), x)
         ELSE <<x>> \o sorted

RECURSIVE SortKeyedDesc(_)
SortKeyedDesc(s) ==
    IF s = <<>> THEN <<>>
    ELSE InsertDesc(SortKeyedDesc(SubSeq(s, 1, Len(s) - 1)), s[Len(s)])

\* the items of s, sorted by Key, highest first
SortDesc(s, Key(_)) ==
    LET sorted == SortKeyedDesc([k \in 1..Len(s) |-> <<Key(s[k]), s[k]>>])
    IN  [k \in 1..Len(s) |-> sorted[k][2]]

SeqPermutations(s) ==
    {p \in [1..Len(s) -> Range(s)] :
        \A i \in 1..Len(s) : \E j \in 1..Len(s) : p[j] = s[i]}

-----------------------------------------------------------------------------
(* Bounds of the dashboard model.                                          *)

MaxProfiles == 2

ProfileNames == <<"dev", "ops", "qa", "stg", "prd">>

AccountIds == {"111111111111", "222222222222"}

Services == <<"Compute", "Storage">>

\* 0.001 in thousandths of a dollar: `cost_amount > 0.001`
MaterialityThreshold == 1

\* The cost answers a profile can get: the period totals and the per-service
\* groups of the current period (Keys[0], Metrics.UnblendedCost.Amount).
CostAnswers ==
    { [current_month |-> 5000,  last_month |-> 4000,
       groups |-> << <<"Compute", 5000>> >>],
      [current_month |-> 10000, last_month |-> 0,
       groups |-> << <<"Compute", 7000>>, <<"Storage", 3000>> >>],
      [current_month |-> 1,     last_month |-> 4000,
       groups |-> << <<"Compute", 0>>, <<"Storage", 1>> >>],
      [current_month |-> 3000,  last_month |-> 3000,
       groups |-> << <<"Storage", 3000>>, <<"Compute", 0>> >>] }

\* One profile as the gateway sees it: the account its credentials resolve
\* to (None when sts fails), whether cost retrieval works, and the answer.
GatewayAnswers ==
    [account : AccountIds \cup {None}, cost_ok : BOOLEAN, cost : CostAnswers]

-----------------------------------------------------------------------------
(* cost_processor / profile_processor                                      *)

\* get_account_id: the account of the session, None on failure
get_account_id(profile) == gateway[profile].account

CostOf(pair) == pair[2]

\* service_cost_data.sort(key=lambda x: x[1], reverse=True)
SortByCostDesc(s) == SortDesc(s, CostOf)

\* process_service_costs: the groups above the threshold, sorted
process_service_costs(cost_data) ==
    SortByCostDesc(SelectSeq(cost_data.groups,
                             LAMBDA g : g[2] > MaterialityThreshold))

\* process_single_profile
process_single_profile(profile) ==
    IF gateway[profile].cost_ok
    THEN LET cost_data == gateway[profile].cost
         IN  [profile       |-> <<profile>>,
              account_id    |-> IF gateway[profile].account = None
                                THEN "Unknown" ELSE gateway[profile].account,
              last_month    |-> cost_data.last_month,
              current_month |-> cost_data.current_month,
              service_costs |-> process_service_costs(cost_data),
              success       |-> TRUE]
    ELSE [profile       |-> <<profile>>,
          account_id    |-> "Error",
          last_month    |-> 0,
          current_month |-> 0,
          service_costs |-> <<>>,
          success       |-> FALSE]

\* The defaultdict(float) accumulation of process_combined_profiles, as an
\* insertion-ordered list of <<service, cost>>.
RECURSIVE AddToDict(_, _, _)
AddToDict(d, service, amount) ==
    IF d = <<>> THEN << <<service, amount>> >>
    ELSE IF Head(d)[1] = service
         THEN << <<service, Head(d)[2] + amount>> >> \o Tail(d)
         ELSE <<Head(d)>> \o AddToDict(Tail(d), service, amount)

RECURSIVE AccumulateGroups(_, _)
AccumulateGroups(d, groups) ==
    IF groups = <<>> THEN d
    ELSE LET g == Head(groups)
         IN  AccumulateGroups(IF g[2] > MaterialityThreshold
                              THEN AddToDict(d, g[1], g[2]) ELSE d,
                              Tail(groups))

\* The cost data process_combined_profiles works from: that of the primary
\* profile (profiles[0]); the zero defaults when its retrieval fails.
CombinedCostData(profiles) ==
    LET primary_profile == profiles[1]
    IN  IF gateway[primary_profile].cost_ok
        THEN gateway[primary_profile].cost
        ELSE [current_month |-> 0, last_month |-> 0, groups |-> <<>>]

\* process_combined_profiles
process_combined_profiles(account_id, profiles) ==
    LET account_cost_data == CombinedCostData(profiles)
        combined_service_costs_dict ==
            AccumulateGroups(<<>>, account_cost_data.groups)
    IN  [profile       |-> profiles,
         account_id    |-> account_id,
         last_month    |-> account_cost_data.last_month,
         current_month |-> account_cost_data.current_month,
         service_costs |->
             SortByCostDesc(SelectSeq(combined_service_costs_dict,
                                      LAMBDA e : e[2] > MaterialityThreshold)),
         success       |-> TRUE]

-----------------------------------------------------------------------------
(* dashboard_runner._generate_dashboard_data                               *)

DashIdle ==
    /\ profiles_to_use = <<>>
    /\ combine = FALSE
    /\ gateway = <<>>
    /\ account_profiles = <<>>
    /\ export_data = <<>>
    /\ dash_pc = "idle"
    /\ dash_i = 0

DashInit ==
    /\ \E n \in 1..MaxProfiles :
          /\ profiles_to_use = SubSeq(ProfileNames, 1, n)
          /\ gateway \in [Range(SubSeq(ProfileNames, 1, n)) -> GatewayAnswers]
    /\ combine \in BOOLEAN
    /\ account_profiles = <<>>
    /\ export_data = <<>>
    /\ dash_pc = IF combine THEN "group" ELSE "process"
    /\ dash_i = 1

\* account_profiles[current_account_id].append(profile)
RECURSIVE AppendProfile(_, _, _)
AppendProfile(d, account_id, profile) ==
    IF d = <<>> THEN << [account_id |-> account_id, profiles |-> <<profile>>] >>
    ELSE IF Head(d).account_id = account_id
         THEN << [Head(d) EXCEPT !.profiles = Append(@, profile)] >> \o Tail(d)
         ELSE <<Head(d)>> \o AppendProfile(Tail(d), account_id, profile)

\* One iteration of the grouping loop of combine mode.
GroupProfile ==
    /\ dash_pc = "group"
    /\ dash_i <= Len(profiles_to_use)
    /\ LET profile == profiles_to_use[dash_i]
           current_account_id == get_account_id(profile)
       IN  account_profiles' =
               IF current_account_id # None
               THEN AppendProfile(account_profiles, current_account_id, profile)
               ELSE account_profiles
    /\ dash_i' = dash_i + 1
    /\ UNCHANGED <<profiles_to_use, combine, gateway, export_data, dash_pc>>
    /\ UNCHANGED dashOthers

\* The grouping loop is over: "Fetching cost data..."
StartFetch ==
    /\ dash_pc = "group"
    /\ dash_i > Len(profiles_to_use)
    /\ dash_pc' = "process"
    /\ dash_i' = 1
    /\ UNCHANGED <<profiles_to_use, combine, gateway, account_profiles,
                   export_data>>
    /\ UNCHANGED dashOthers

\* One iteration of the loop over account_profiles.items() (combine mode).
ProcessAccount ==
    /\ dash_pc = "process"
    /\ combine
    /\ dash_i <= Len(account_profiles)
    /\ LET account_id_key == account_profiles[dash_i].account_id
           profiles_list == account_profiles[dash_i].profiles
           profile_data ==
               IF Len(profiles_list) > 1
               THEN process_combined_profiles(account_id_key, profiles_list)
               ELSE process_single_profile(profiles_list[1])
       IN  export_data' = Append(export_data, profile_data)
    /\ dash_i' = dash_i + 1
    /\ UNCHANGED <<profiles_to_use, combine, gateway, account_profiles, dash_pc>>
    /\ UNCHANGED dashOthers

\* One iteration of the loop over profiles_to_use (no combine mode).
ProcessProfile ==
    /\ dash_pc = "process"
    /\ ~combine
    /\ dash_i <= Len(profiles_to_use)
    /\ export_data' =
           Append(export_data, process_single_profile(profiles_to_use[dash_i]))
    /\ dash_i' = dash_i + 1
    /\ UNCHANGED <<profiles_to_use, combine, gateway, account_profiles, dash_pc>>
    /\ UNCHANGED dashOthers

\* return export_data
DashReturn ==
    /\ dash_pc = "process"
    /\ dash_i > (IF combine THEN Len(account_profiles) ELSE Len(profiles_to_use))
    /\ dash_pc' = "done"
    /\ UNCHANGED <<profiles_to_use, combine, gateway, account_profiles,
                   export_data, dash_i>>
    /\ UNCHANGED dashOthers

DashNext ==
    \/ GroupProfile
    \/ StartFetch
    \/ ProcessAccount
    \/ ProcessProfile
    \/ DashReturn

-----------------------------------------------------------------------------
(* optimization_recommendations: EC2 right-sizing                          *)

\* An instance type is kept as the list of its dot-separated parts, which is
\* what instance_type.split(".") gives: "t3.large" is <<"t3", "large">>.
T(family, size) == <<family, size>>

\* the None that get_smaller_instance returns for "no smaller type"
NoType == <<>>

Ladder(family, sizes) == [k \in 1..Len(sizes) |-> T(family, sizes[k])]

BurstSizes == <<"nano", "micro", "small", "medium", "large", "xlarge", "2xlarge">>
M5Sizes == <<"large", "xlarge", "2xlarge", "4xlarge", "8xlarge", "12xlarge",
             "16xlarge", "24xlarge">>
C5Sizes == <<"large", "xlarge", "2xlarge", "4xlarge", "9xlarge", "12xlarge",
             "18xlarge", "24xlarge">>

INSTANCE_FAMILIES ==
    [t2 |-> Ladder("t2", BurstSizes),
     t3 |-> Ladder("t3", BurstSizes),
     m5 |-> Ladder("m5", M5Sizes),
     c5 |-> Ladder("c5", C5Sizes),
     r5 |-> Ladder("r5", M5Sizes)]

\* hourly on-demand rates, in ten-thousandths of a dollar
INSTANCE_PRICING ==
    << <<T("t2", "nano"), 58>>,    <<T("t2", "micro"), 116>>,
       <<T("t2", "small"), 230>>,  <<T("t2", "medium"), 464>>,
       <<T("t2", "large"), 928>>,  <<T("t2", "xlarge"), 1856>>,
       <<T("t2", "2xlarge"), 3712>>,
       <<T("t3", "nano"), 52>>,    <<T("t3", "micro"), 104>>,
       <<T("t3", "small"), 208>>,  <<T("t3", "medium"), 416>>,
       <<T("t3", "large"), 832>>,  <<T("t3", "xlarge"), 1664>>,
       <<T("t3", "2xlarge"), 3328>>,
       <<T("m5", "large"), 960>>,  <<T("m5", "xlarge"), 1920>>,
       <<T("m5", "2xlarge"), 3840>>,
       <<T("c5", "large"), 850>>,  <<T("c5", "xlarge"), 1700>>,
       <<T("c5", "2xlarge"), 3400>>,
       <<T("r5", "large"), 1260>>, <<T("r5", "xlarge"), 2520>>,
       <<T("r5", "2xlarge"), 5040>> >>

\* INSTANCE_PRICING.get(instance_type, 0.0)
get_instance_pricing(instance_type) ==
    IF \E k \in 1..Len(INSTANCE_PRICING) : INSTANCE_PRICING[k][1] = instance_type
    THEN LET k == CHOOSE k \in 1..Len(INSTANCE_PRICING) :
                      INSTANCE_PRICING[k][1] = instance_type
         IN  INSTANCE_PRICING[k][2]
    ELSE 0

\* instances.index(x): the first position of x, 0 standing for ValueError
IndexOf(instances, x) ==
    IF \E k \in 1..Len(instances) : instances[k] = x
    THEN CHOOSE k \in 1..Len(instances) :
             /\ instances[k] = x
             /\ \A j \in 1..(k - 1) : instances[j] # x
    ELSE 0

\* (mutant) two steps down where the ladder allows it
SmallerByTwoSteps(instances, current_index) ==
    instances[IF current_index > 2 THEN current_index - 2 ELSE 1]

\* instances[current_index - 1]
SmallerByOneStep(instances, current_index) == instances[current_index - 1]

\* get_smaller_instance: the next smaller type of the family, or None (NoType)

get_smaller_instance(instance_type) ==
    LET parts == instance_type
    IN  IF Len(parts) # 2 THEN NoType
        ELSE LET family == parts[1]
             IN  IF family \notin DOMAIN INSTANCE_FAMILIES THEN NoType
                 ELSE LET instances == INSTANCE_FAMILIES[family]
                          current_index == IndexOf(instances, instance_type)
                      IN  IF current_index > 1
                          THEN SmallerByOneStep(instances, current_index)
                          ELSE NoType

\* one CloudWatch datapoint of the hourly CPUUtilization statistics
DP(average, maximum) == [Average |-> average, Maximum |-> maximum]

RECURSIVE MaxOf(_)
MaxOf(s) == IF Len(s) = 1 THEN s[1]
            ELSE LET m == MaxOf(Tail(s)) IN IF s[1] >= m THEN s[1] ELSE m

\* 80.0: `max_cpu < 80.0`
MaxCpuGuard == 80

\* avg_cpu < cpu_threshold alone, the maximum left unread
AverageBelowThreshold(datapoints, threshold) ==
    SumSeq([k \in 1..Len(datapoints) |-> datapoints[k].Average])
        < threshold * Len(datapoints)

\* avg_cpu < cpu_threshold and max_cpu < 80.0, with
\* avg_cpu = sum(Average) / len(datapoints) compared without dividing
IsUnderutilized(datapoints, threshold) ==
    /\ SumSeq([k \in 1..Len(datapoints) |-> datapoints[k].Average])
           < threshold * Len(datapoints)
    /\ MaxOf([k \in 1..Len(datapoints) |-> datapoints[k].Maximum]) < MaxCpuGuard

\* savings = current_cost - recommended_cost, both rate * 24 * 30
MonthlySavings(instance_type, smaller_type) ==
    get_instance_pricing(instance_type) * 24 * 30
        - get_instance_pricing(smaller_type) * 24 * 30

\* The body of the loop over the running instances: the recommendations one
\* instance adds (none or one).
RightSizeInstance(instance, threshold) ==
    LET instance_type == instance.instance_type
        smaller_type == get_smaller_instance(instance_type)
    IN  IF smaller_type = NoType THEN <<>>
        ELSE IF ~instance.metric_ok THEN <<>>       \* logged, instance skipped
        ELSE IF instance.datapoints = <<>> THEN <<>>
        ELSE IF IsUnderutilized(instance.datapoints, threshold)
             THEN << [resource_id      |-> instance.instance_id,
                      region           |-> instance.region,
                      current_type     |-> instance_type,
                      recommended_type |-> smaller_type,
                      savings          |-> MonthlySavings(instance_type,
                                                          smaller_type)] >>
             ELSE <<>>

RECURSIVE RightSizeAll(_, _)
RightSizeAll(instances, threshold) ==
    IF instances = <<>> THEN <<>>
    ELSE RightSizeInstance(Head(instances), threshold)
             \o RightSizeAll(Tail(instances), threshold)

SavingsOf(rec) == rec.savings

\* analyze_ec2_right_sizing: every running instance in turn, then the sort
analyze_ec2_right_sizing(instances, threshold) ==
    SortDesc(RightSizeAll(instances, threshold), SavingsOf)

\* ---- the inventories the gateway can hand to the analysis

MaxInstances == 2

\* every type of every ladder
LadderTypes ==
    UNION {Range(INSTANCE_FAMILIES[f]) : f \in DOMAIN INSTANCE_FAMILIES}

\* types of no ladder: a size the family's ladder lacks, an unknown family,
\* and names that do not split in two parts
OtherTypes ==
    {T("t3", "metal"), T("x1", "large"), <<"t3">>, <<"t3", "large", "x">>}

\* the types used when several instances run together
TypePool ==
    {T("t3", "nano"), T("t3", "large"), T("m5", "4xlarge"), T("m5", "8xlarge"),
     T("t3", "metal"), <<"t3">>}

\* the CPU histories: none, idle, idle but bursty, average on the threshold,
\* busy
CpuHistories ==
    { <<>>,
      <<DP(8, 35)>>,
      <<DP(8, 35), DP(10, 85)>>,
      <<DP(40, 50), DP(40, 79)>>,
      <<DP(30, 40), DP(60, 79)>> }

Regions == <<"us-east-1", "us-west-2">>

InstanceIds == <<"i-1", "i-2", "i-3", "i-4">>

Metrics == [metric_ok : {TRUE}, datapoints : CpuHistories]
               \cup [metric_ok : {FALSE}, datapoints : {<<>>}]

\* the instance at position k of the inventory
InstanceAt(k, type, metric) ==
    [instance_id   |-> InstanceIds[k],
     region        |-> Regions[((k - 1) % Len(Regions)) + 1],
     instance_type |-> type,
     metric_ok     |-> metric.metric_ok,
     datapoints    |-> metric.datapoints]

\* inv is an inventory of n instances with types among `types`
IsInventory(inv, n, types) ==
    \E ty \in [1..n -> types], me \in [1..n -> Metrics] :
        inv = [k \in 1..n |-> InstanceAt(k, ty[k], me[k])]

\* one instance of any type, or up to MaxInstances instances of the pool
IsRunningInventory(inv) ==
    \/ IsInventory(inv, 1, (LadderTypes \cup OtherTypes) \ TypePool)
    \/ \E n \in 0..MaxInstances : IsInventory(inv, n, TypePool)

\* 40.0: the default cpu_threshold
DefaultCpuThreshold == 40

RsIdle ==
    /\ running_instances = <<>>
    /\ cpu_threshold = 0
    /\ recommendations = <<>>
    /\ rs_pc = "idle"

RsInit ==
    /\ IsRunningInventory(running_instances)
    /\ cpu_threshold = DefaultCpuThreshold
    /\ recommendations = <<>>
    /\ rs_pc = "call"

\* recommendations = analyze_ec2_right_sizing(session, cpu_threshold=...)
AnalyzeEc2RightSizing ==
    /\ rs_pc = "call"
    /\ recommendations' = analyze_ec2_right_sizing(running_instances, cpu_threshold)
    /\ rs_pc' = "done"
    /\ UNCHANGED <<running_instances, cpu_threshold>>
    /\ UNCHANGED rsOthers

RsNext == AnalyzeEc2RightSizing

-----------------------------------------------------------------------------
(* anomaly_detection                                                       *)

\* Exact fractions <<num, den>> with den > 0, for the values the code gets
\* from "/".
Frac(num, den) == <<num, den>>
FracEq(a, b) == a[1] * b[2] = b[1] * a[2]
FracLess(a, b) == a[1] * b[2] < b[1] * a[2]
FracMax(a, b) == IF FracLess(a, b) THEN b ELSE a
FracZero == Frac(0, 1)

\* `if len(costs) < 14`
MinPoints == 14

ExtraDays == 2

\* the day of the spike in a series that has one (1-based)
SpikeDay == 5

SeriesLengths == {1, MinPoints - 1, MinPoints, MinPoints + ExtraDays}

\* the daily cost series: no cost at all, a flat cost, a flat cost with one
\* spike and a small rise after it, a standing credit, and a standing
\* credit with one day of charges
SeriesShapes == {"zero", "flat", "spike", "credit", "refund"}

Series(shape, n) ==
    [d \in 1..n |->
        CASE shape = "zero"   -> 0
          [] shape = "flat"   -> 10
          [] shape = "spike"  -> IF d = SpikeDay THEN 500
                                 ELSE IF d = SpikeDay + 1 THEN 12 ELSE 10
          [] shape = "credit" -> -4
          [] shape = "refund" -> IF d = SpikeDay THEN 30 ELSE -4]

\* detect_anomalies(session, days = 90)
DefaultDays == 90

\* a full window of daily costs, flat at 10 but for a spike of 500 on its
\* middle day (day 45 of 90) and 12 on the day after
ScenarioSeries ==
    [d \in 1..DefaultDays |->
        IF d = DefaultDays \div 2 THEN 500
        ELSE IF d = DefaultDays \div 2 + 1 THEN 12 ELSE 10]

AllSeries ==
    {Series(shape, n) : shape \in SeriesShapes, n \in SeriesLengths}
        \cup {ScenarioSeries}

\* the sensitivities a caller can pass, in thousandths: 0, 0.005, 0.05 (the
\* default of detect_anomalies), 0.5 and 2.0 (the default of
\* --anomaly-sensitivity)
Sensitivities == {0, 5, 50, 500, 2000}

\* the documented range: 0.01 to 0.5
InDocumentedRange(c) == 10 <= c /\ c <= 500

\* IsolationForest(contamination=c).fit accepts c in (0, 0.5] and raises
\* otherwise
FitAccepts(c) == 0 < c /\ c <= 500

\* collect_historical_cost_data: the per-service series, {} when the query
\* fails
collect_historical_cost_data(history) ==
    IF history.ok THEN history.data ELSE <<>>

\* (mutant) the rolling window's length taken for the minimum
HasWindowOfData(costs) == Len(costs) >= 7

\* `if len(costs) < 14: continue`, negated
HasEnoughData(costs) == Len(costs) >= MinPoints

\* the days the outlier model can flag in a series of n days (0-based day
\* indexes, as df.index gives them)
FlagCandidates(n) ==
    {0, SpikeDay - 1, n - 1}
        \cup (IF n = DefaultDays THEN {DefaultDays \div 2 - 1} ELSE {})

\* Rows that are all alike get one and the same score, which is then the
\* model's threshold: none of them is an outlier.
IsConstant(costs) == \A d \in 1..Len(costs) : costs[d] = costs[1]

\* the days fit_predict may mark -1
Flaggable(costs) ==
    IF IsConstant(costs) THEN {} ELSE FlagCandidates(Len(costs))

\* the score the model gives a flagged day
OutlierScore == -1

\* the (day, cost, score) tuples of the flagged days, in day order
RECURSIVE AnomalyPoints(_, _, _)
AnomalyPoints(costs, flagged, day) ==
    IF day >= Len(costs) THEN <<>>
    ELSE (IF day \in flagged THEN << <<day, costs[day + 1], OutlierScore>> >>
          ELSE <<>>) \o AnomalyPoints(costs, flagged, day + 1)

\* (mutant) amount / baseline with no guard on the baseline's sign
DeviationUnguarded(amount, baseline) ==
    IF baseline[1] = 0 THEN FracZero
    ELSE IF baseline[1] < 0 THEN Frac(-(amount * baseline[2]), -baseline[1])
    ELSE Frac(amount * baseline[2], baseline[1])

\* calculate_deviation
calculate_deviation(amount, baseline) ==
    IF baseline[1] <= 0 THEN FracZero
    ELSE Frac(amount * baseline[2], baseline[1])

\* baseline = sum(service_costs) / len(service_costs) if service_costs else 0
Baseline(service_costs) ==
    IF service_costs = <<>> THEN FracZero
    ELSE Frac(SumSeq(service_costs), Len(service_costs))

\* the records detect_anomalies builds for one service
ProcessedAnomalies(service_costs, anomaly_points) ==
    [k \in 1..Len(anomaly_points) |->
        LET day_idx == anomaly_points[k][1]
            amount == anomaly_points[k][2]
            baseline == Baseline(service_costs)
        IN  [days_ago  |-> Len(service_costs) - day_idx - 1,
             amount    |-> amount,
             baseline  |-> baseline,
             deviation |-> calculate_deviation(amount, baseline),
             score     |-> anomaly_points[k][3]]]

\* historical_data[service]
CostsOf(data, service) ==
    LET k == CHOOSE k \in 1..Len(data) : data[k].service = service
    IN  data[k].costs

RECURSIVE HighestDeviation(_)
HighestDeviation(records) ==
    IF records = <<>> THEN FracZero
    ELSE FracMax(HighestDeviation(SubSeq(records, 1, Len(records) - 1)),
                 records[Len(records)].deviation)

RECURSIVE Flatten(_)
Flatten(ss) == IF ss = <<>> THEN <<>> ELSE Head(ss) \o Flatten(Tail(ss))

EmptyAnomalyResult ==
    [anomalies |-> <<>>,
     summary |-> [total_anomalies |-> 0,
                  total_services_analyzed |-> 0,
                  services_with_anomalies |-> 0,
                  highest_deviation |-> FracZero]]

\* the AnomalyResult detect_anomalies builds from the detected points
BuildAnomalyResult(data, by_service) ==
    LET processed ==
            [k \in 1..Len(by_service) |->
                [service |-> by_service[k].service,
                 records |-> ProcessedAnomalies(
                                 CostsOf(data, by_service[k].service),
                                 by_service[k].points)]]
    IN  [anomalies |-> processed,
         summary |->
            [total_anomalies |->
                 SumSeq([k \in 1..Len(by_service) |-> Len(by_service[k].points)]),
             total_services_analyzed |-> Len(data),
             services_with_anomalies |-> Len(by_service),
             highest_deviation |->
                 HighestDeviation(Flatten([k \in 1..Len(processed) |->
                                              processed[k].records]))]]

AnIdle ==
    /\ sensitivity = 0
    /\ cost_history = [ok |-> FALSE, data |-> <<>>]
    /\ historical_data = <<>>
    /\ anomalies_by_service = <<>>
    /\ anomaly_result = <<>>
    /\ an_pc = "idle"
    /\ an_i = 0

AnInit ==
    /\ sensitivity \in Sensitivities
    /\ \E ok \in BOOLEAN, n \in 0..Len(Services) :
          \E series \in [1..n -> AllSeries] :
              cost_history =
                  [ok |-> ok,
                   data |-> [k \in 1..n |-> [service |-> Services[k],
                                             costs |-> series[k]]]]
    /\ historical_data = <<>>
    /\ anomalies_by_service = <<>>
    /\ anomaly_result = <<>>
    /\ an_pc = "call"
    /\ an_i = 0

\* detect_anomalies, up to the call of detect_service_anomalies: the cost
\* data is collected, and an empty collection is answered at once.
AnCollect ==
    /\ an_pc = "call"
    /\ historical_data' = collect_historical_cost_data(cost_history)
    /\ IF historical_data' = <<>>
       THEN /\ anomaly_result' = EmptyAnomalyResult
            /\ an_pc' = "done"
            /\ an_i' = an_i
       ELSE /\ anomaly_result' = anomaly_result
            /\ an_pc' = "detect"
            /\ an_i' = 1
    /\ UNCHANGED <<sensitivity, cost_history, anomalies_by_service>>
    /\ UNCHANGED anOthers

\* One iteration of the loop of detect_service_anomalies: a short series is
\* passed over; otherwise the outlier model is fitted, which raises on a
\* contamination it does not accept, and the days it flags are recorded.
AnDetectService ==
    /\ an_pc = "detect"
    /\ an_i <= Len(historical_data)
    /\ LET service == historical_data[an_i].service
           costs == historical_data[an_i].costs
       IN  IF ~HasEnoughData(costs)
           THEN /\ an_i' = an_i + 1
                /\ UNCHANGED <<anomalies_by_service, an_pc>>
           ELSE IF ~FitAccepts(sensitivity)
           THEN /\ an_pc' = "raised"
                /\ UNCHANGED <<anomalies_by_service, an_i>>
           ELSE \E flagged \in SUBSET Flaggable(costs) :
                /\ anomalies_by_service' =
                       IF flagged # {}
                       THEN Append(anomalies_by_service,
                                   [service |-> service,
                                    points |-> AnomalyPoints(costs, flagged, 0)])
                       ELSE anomalies_by_service
                /\ an_i' = an_i + 1
                /\ an_pc' = an_pc
    /\ UNCHANGED <<sensitivity, cost_history, historical_data, anomaly_result>>
    /\ UNCHANGED anOthers

\* detect_anomalies after detect_service_anomalies returned: the baselines,
\* the deviations and the summary.
AnProcess ==
    /\ an_pc = "detect"
    /\ an_i > Len(historical_data)
    /\ anomaly_result' = BuildAnomalyResult(historical_data, anomalies_by_service)
    /\ an_pc' = "done"
    /\ UNCHANGED <<sensitivity, cost_history, historical_data,
                   anomalies_by_service, an_i>>
    /\ UNCHANGED anOthers

AnNext ==
    \/ AnCollect
    \/ AnDetectService
    \/ AnProcess

-----------------------------------------------------------------------------
(* ri_optimizer                                                            *)
(* Usage is in whole hours, hourly rates in millionths of a dollar and     *)
(* monthly savings in hundred-thousandths of a dollar.                     *)

\* get_ri_and_sp_recommendations(session, lookback_days = 30)
DefaultLookbackDays == 30

\* data.get('lookback_days', 14): the period the API asks for by default
ApiLookbackDays == 14

\* the periods an optimizer is built with
LookbackPeriods == {ApiLookbackDays, DefaultLookbackDays}

MaxPatterns == 2

\* dict.get(key, default) on a table kept as a sequence of <<key, value>>
Lookup(table, key, default) ==
    IF \E k \in 1..Len(table) : table[k][1] = key
    THEN table[CHOOSE k \in 1..Len(table) : table[k][1] = key][2]
    ELSE default

\* base_prices of _get_ec2_hourly_rate, in ten-thousandths of a dollar
EC2_BASE_PRICES ==
    << <<"t2.micro", 116>>,  <<"t2.small", 230>>,  <<"t2.medium", 464>>,
       <<"t2.large", 928>>,  <<"t3.micro", 104>>,  <<"t3.small", 208>>,
       <<"t3.medium", 416>>, <<"m5.large", 960>>,  <<"m5.xlarge", 1920>>,
       <<"m5.2xlarge", 3840>>, <<"c5.large", 850>>, <<"c5.xlarge", 1700>>,
       <<"r5.large", 1260>>, <<"r5.xlarge", 2520>> >>

\* base_prices of _get_rds_hourly_rate, in ten-thousandths of a dollar
RDS_BASE_PRICES ==
    << <<"db.t2.micro", 170>>,  <<"db.t2.small", 340>>,
       <<"db.t2.medium", 680>>, <<"db.t3.micro", 160>>,
       <<"db.t3.small", 320>>,  <<"db.t3.medium", 640>>,
       <<"db.m5.large", 1710>>, <<"db.m5.xlarge", 3420>>,
       <<"db.r5.large", 2260>>, <<"db.r5.xlarge", 4520>> >>

\* region_multipliers, in hundredths
REGION_MULTIPLIERS ==
    << <<"us-east-1", 100>>, <<"us-east-2", 100>>, <<"us-west-1", 110>>,
       <<"us-west-2", 100>>, <<"eu-west-1", 105>>, <<"eu-central-1", 115>>,
       <<"ap-northeast-1", 115>>, <<"ap-southeast-1", 110>>,
       <<"ap-southeast-2", 115>>, <<"ap-south-1", 110>> >>

\* _get_ec2_hourly_rate: base price (0.1 if unknown) times the region's
\* multiplier (1.0 if unknown), in millionths of a dollar
get_ec2_hourly_rate(instance_type, region) ==
    Lookup(EC2_BASE_PRICES, instance_type, 1000)
        * Lookup(REGION_MULTIPLIERS, region, 100)

\* _get_rds_hourly_rate: the same, with 0.15 for an unknown type
get_rds_hourly_rate(instance_type, region) ==
    Lookup(RDS_BASE_PRICES, instance_type, 1500)
        * Lookup(REGION_MULTIPLIERS, region, 100)

\* the sum of the squares of the first n elements of s
RECURSIVE SumSquaresTo(_, _)
SumSquaresTo(s, n) ==
    IF n = 0 THEN 0 ELSE s[n] * s[n] + SumSquaresTo(s, n - 1)

SumSquares(s) == SumSquaresTo(s, Len(s))

\* `cv < num / den` for cv = std_dev / mean of daily_usage (population
\* variance), 0 for a single day; decided on the squares without a root:
\* cv^2 = (n * sum(x^2) - sum(x)^2) / sum(x)^2.  Every kept amount is
\* positive, so the mean is.
CvBelow(daily_usage, num, den) ==
    IF Len(daily_usage) > 1
    THEN LET n == Len(daily_usage)
             s == SumSeq(daily_usage)
         IN  den * den * (n * SumSquares(daily_usage) - s * s) < num * num * s * s
    ELSE TRUE

\* 'High' if cv < 0.1 else ('Medium' if cv < 0.3 else 'Low')
Stability(daily_usage) ==
    IF CvBelow(daily_usage, 1, 10) THEN "High"
    ELSE IF CvBelow(daily_usage, 3, 10) THEN "Medium" ELSE "Low"

\* (mutant) the Medium and Low arms change places
ConfidenceWithSwappedArms(days_used, lookback, daily_usage) ==
    IF 10 * days_used > 9 * lookback /\ CvBelow(daily_usage, 1, 10) THEN "High"
    ELSE IF 10 * days_used > 8 * lookback /\ CvBelow(daily_usage, 2, 10)
         THEN "Low"
         ELSE "Medium"

\* 'High' if (usage_consistency > 0.9 and cv < 0.1) else
\* ('Medium' if (usage_consistency > 0.8 and cv < 0.2) else 'Low')
RecommendationConfidence(days_used, lookback, daily_usage) ==
    IF 10 * days_used > 9 * lookback /\ CvBelow(daily_usage, 1, 10) THEN "High"
    ELSE IF 10 * days_used > 8 * lookback /\ CvBelow(daily_usage, 2, 10)
         THEN "Medium"
         ELSE "Low"

\* the days of one key that count: usage_quantity > 0
DailyUsage(amounts) == SelectSeq(amounts, LAMBDA x : x > 0)

\* The pattern _extract_consistent_usage builds for one key, in a list of
\* none or one: a key used on less than 70% of the days gives none.
ConsistentUsage(group, service, lookback) ==
    LET daily_usage == DailyUsage(group.amounts)
        days_used == Len(daily_usage)
        total_usage == SumSeq(daily_usage)
    IN  IF days_used = 0 THEN <<>>                 \* the key never enters
        ELSE IF 10 * days_used >= 7 * lookback
        THEN << [instance_type   |-> group.instance_type,
                 region          |-> group.region,
                 service         |-> service,
                 consistency     |-> Frac(days_used, lookback),
                 avg_daily_usage |-> Frac(total_usage, days_used),
                 stability       |-> Stability(daily_usage),
                 total_hours     |-> total_usage,
                 recommendation_confidence |->
                     RecommendationConfidence(days_used, lookback,
                                              daily_usage)] >>
        ELSE <<>>

RECURSIVE ConsistentUsageAll(_, _, _)
ConsistentUsageAll(groups, service, lookback) ==
    IF groups = <<>> THEN <<>>
    ELSE ConsistentUsage(Head(groups), service, lookback)
             \o ConsistentUsageAll(Tail(groups), service, lookback)

TotalHoursOf(pattern) == pattern.total_hours

\* _extract_consistent_usage: the patterns, most hours first
extract_consistent_usage(usage_data, service, lookback) ==
    SortDesc(ConsistentUsageAll(usage_data, service, lookback), TotalHoursOf)

\* analyze_usage_patterns: {} (here <<>>) when a Cost Explorer query raises,
\* else _process_usage_data's dict
analyze_usage_patterns(ok, usage, lookback) ==
    IF ~ok THEN <<>>
    ELSE [EC2 |-> extract_consistent_usage(usage.ec2, "EC2", lookback),
          RDS |-> extract_consistent_usage(usage.rds, "RDS", lookback),
          analysis_period |-> [days |-> lookback]]

\* (mutant) no pattern is passed over
NeverExcluded(pattern) == FALSE

\* `if pattern['recommendation_confidence'] == 'Low': continue`
IsExcluded(pattern) == pattern.recommendation_confidence = "Low"

\* (mutant) a started instance counts as a whole one
RoundedUpCount(pattern) ==
    (pattern.avg_daily_usage[1] + 24 * pattern.avg_daily_usage[2] - 1)
        \div (24 * pattern.avg_daily_usage[2])

\* int(avg_daily_usage / 24)
RecommendedCount(pattern) ==
    pattern.avg_daily_usage[1] \div (24 * pattern.avg_daily_usage[2])

\* The recommendation one pattern gives (none or one).  The reserved rate is
\* `discount` hundredths of the on-demand rate, so a month saves
\* rate * (100 - discount) / 100 * count * 24 * 30: 288 or 324 times the
\* rate for each instance.  The rate is in millionths of a dollar and a
\* multiple of 5, the savings in hundred-thousandths.
RiRecommendation(pattern, service, rate, discount, lookback) ==
    IF IsExcluded(pattern) THEN <<>>
    ELSE IF RecommendedCount(pattern) < 1 THEN <<>>
    ELSE << [service           |-> service,
             instance_type     |-> pattern.instance_type,
             region            |-> pattern.region,
             current_usage     |-> Frac(pattern.total_hours, lookback),
             recommended_count |-> RecommendedCount(pattern),
             monthly_savings   |->
                 ((rate * (((100 - discount) * 24 * 30) \div 100)) \div 10)
                     * RecommendedCount(pattern),
             confidence        |-> pattern.recommendation_confidence] >>

RECURSIVE generate_ec2_ri_recommendations(_, _)
\* _generate_ec2_ri_recommendations: ri_hourly_rate = on_demand * 0.6
generate_ec2_ri_recommendations(ec2_patterns, lookback) ==
    IF ec2_patterns = <<>> THEN <<>>
    ELSE LET pattern == Head(ec2_patterns)
         IN  RiRecommendation(pattern, "EC2",
                 get_ec2_hourly_rate(pattern.instance_type, pattern.region),
                 60, lookback)
             \o generate_ec2_ri_recommendations(Tail(ec2_patterns), lookback)

RECURSIVE generate_rds_ri_recommendations(_, _)
\* _generate_rds_ri_recommendations: ri_hourly_rate = on_demand * 0.55
generate_rds_ri_recommendations(rds_patterns, lookback) ==
    IF rds_patterns = <<>> THEN <<>>
    ELSE LET pattern == Head(rds_patterns)
         IN  RiRecommendation(pattern, "RDS",
                 get_rds_hourly_rate(pattern.instance_type, pattern.region),
                 55, lookback)
             \o generate_rds_ri_recommendations(Tail(rds_patterns), lookback)

\* (mutant) one High recommendation is enough for an overall High
OverallConfidenceOfBest(confidence_levels) ==
    IF \E k \in 1..Len(confidence_levels) : confidence_levels[k] = "High"
    THEN "High"
    ELSE IF \E k \in 1..Len(confidence_levels) : confidence_levels[k] = "Medium"
         THEN "Medium"
         ELSE "Low"

\* 'High' if all are High, else 'Medium' if any is Medium, else 'Low'
OverallConfidence(confidence_levels) ==
    IF \A k \in 1..Len(confidence_levels) : confidence_levels[k] = "High"
    THEN "High"
    ELSE IF \E k \in 1..Len(confidence_levels) : confidence_levels[k] = "Medium"
         THEN "Medium"
         ELSE "Low"

\* get_ri_recommendations on the patterns analyze_usage_patterns returned.
\* analysis_period is a list of none or one: the early return has no such
\* key.
get_ri_recommendations(usage_patterns, lookback) ==
    IF usage_patterns = <<>>
    THEN [recommendations   |-> <<>>,
          estimated_savings |-> 0,
          confidence        |-> "Low",
          analysis_period   |-> <<>>]
    ELSE LET all_recommendations ==
                 generate_ec2_ri_recommendations(usage_patterns.EC2, lookback)
                     \o generate_rds_ri_recommendations(usage_patterns.RDS,
                                                        lookback)
         IN  [recommendations   |-> all_recommendations,
              estimated_savings |->
                  SumSeq([k \in 1..Len(all_recommendations) |->
                             all_recommendations[k].monthly_savings]),
              confidence        |->
                  OverallConfidence([k \in 1..Len(all_recommendations) |->
                                        all_recommendations[k].confidence]),
              analysis_period   |-> <<usage_patterns.analysis_period>>]

\* The provider path of get_savings_plan_recommendations: every detail
\* becomes a recommendation.
ProcessedSavingsPlans(details) ==
    LET processed_recommendations ==
            [k \in 1..Len(details) |->
                [plan_type         |-> "Compute Savings Plan",
                 hourly_commitment |-> Frac(details[k].HourlyCommitment, 1),
                 estimated_monthly_savings |->
                     details[k].EstimatedSavingsAmount,
                 estimated_utilization |->
                     details[k].EstimatedUtilizationPercentage,
                 confidence        |->
                     IF details[k].EstimatedUtilizationPercentage > 90
                     THEN "High" ELSE "Medium"]]
    IN  [recommendations |-> processed_recommendations,
         estimated_total_savings |->
             SumSeq([k \in 1..Len(details) |->
                        details[k].EstimatedSavingsAmount]),
         analysis_period |-> [days |-> 60]]

RECURSIVE ConsistentHours(_)
\* sum of total_hours over the patterns whose confidence is not Low
ConsistentHours(patterns) ==
    IF patterns = <<>> THEN 0
    ELSE (IF Head(patterns).recommendation_confidence # "Low"
          THEN Head(patterns).total_hours ELSE 0)
             + ConsistentHours(Tail(patterns))

\* _generate_estimated_savings_plans: 70% of the average hourly usage is
\* committed and a quarter of that is saved, so a month saves
\* hours / (lookback * 24) * 0.7 * 0.25 * 24 * 30 = hours * 5.25 / lookback
\* dollars.
generate_estimated_savings_plans(usage_patterns, lookback) ==
    IF usage_patterns = <<>>
    THEN [recommendations |-> <<>>,
          estimated_total_savings |-> 0,
          analysis_period |-> [days |-> lookback]]
    ELSE LET ec2_usage_hours == ConsistentHours(usage_patterns.EC2)
             recommended_hourly_commitment ==
                 Frac(ec2_usage_hours * 7, lookback * 24 * 10)
             estimated_monthly_savings ==
                 ec2_usage_hours * (525000 \div lookback)
             recommendation ==
                 [plan_type         |-> "Compute Savings Plan",
                  hourly_commitment |-> recommended_hourly_commitment,
                  estimated_monthly_savings |-> estimated_monthly_savings,
                  estimated_utilization |-> 90,
                  confidence        |-> "Medium"]
         IN  [recommendations |->
                  IF FracLess(FracZero, recommended_hourly_commitment)
                  THEN <<recommendation>> ELSE <<>>,
              estimated_total_savings |-> estimated_monthly_savings,
              analysis_period |-> [days |-> lookback]]

\* (mutant) the estimate also stands in when the provider has no details
SavingsPlansOrEstimate(provider, usage_patterns, lookback) ==
    IF provider.ok /\ provider.details # <<>>
    THEN ProcessedSavingsPlans(provider.details)
    ELSE generate_estimated_savings_plans(usage_patterns, lookback)

\* get_savings_plan_recommendations: the provider's recommendations, or the
\* estimate when the provider call raises
get_savings_plan_recommendations(provider, usage_patterns, lookback) ==
    IF provider.ok THEN ProcessedSavingsPlans(provider.details)
    ELSE generate_estimated_savings_plans(usage_patterns, lookback)

\* ---- what Cost Explorer can answer

\* daily usage of one key over the lookback period: `level` hours a day on
\* the first `days` days (none after), steady, swaying by a third every
\* other day ("sway"), surging by two thirds every other day ("surge"), or
\* tripling every other day ("swing")
UsageAmounts(shape, level, days, lookback) ==
    [d \in 1..lookback |->
        IF d > days THEN 0
        ELSE CASE shape = "steady" -> level
               [] shape = "sway"   -> IF d % 2 = 0 THEN level + level \div 3
                                      ELSE level
               [] shape = "surge"  -> IF d % 2 = 0
                                      THEN level + (2 * level) \div 3
                                      ELSE level
               [] shape = "swing"  -> IF d % 2 = 0 THEN 3 * level ELSE level]

UsageProfile(type, shape, level, days) ==
    [instance_type |-> type, shape |-> shape, level |-> level, days |-> days]

\* EC2 usage: two instances steady on 28 days, one swaying all month, one
\* steady on 25 days, an unknown type on 24 days, one swinging all month,
\* half an instance all month, one on 20 days
Ec2UsageProfiles ==
    { UsageProfile("m5.large", "steady", 48, 28),
      UsageProfile("c5.xlarge", "sway", 24, 30),
      UsageProfile("t3.micro", "steady", 24, 25),
      UsageProfile("x9.huge", "steady", 24, 24),
      UsageProfile("t2.small", "swing", 24, 30),
      UsageProfile("m5.xlarge", "steady", 12, 30),
      UsageProfile("r5.large", "steady", 24, 20) }

RdsUsageProfiles ==
    { UsageProfile("db.m5.large", "steady", 24, 30),
      UsageProfile("db.t3.micro", "swing", 24, 30),
      UsageProfile("db.x9.huge", "sway", 48, 25),
      UsageProfile("db.r5.large", "surge", 24, 30) }

\* a fixed order among the profiles (by level, days and shape), in which
\* Cost Explorer lists the keys it answers with
ProfileRank(profile) ==
    profile.level * 1000 + profile.days * 10
        + (CASE profile.shape = "steady" -> 0 [] profile.shape = "sway" -> 1
             [] profile.shape = "surge" -> 2 [] OTHER -> 3)

\* the answers with n different profiles: each choice of profiles is
\* listed once
UsageLists(profiles, n) ==
    {list \in [1..n -> profiles] :
        \A i, j \in 1..n : i < j => ProfileRank(list[i]) < ProfileRank(list[j])}

UsageRegions == <<"us-east-1", "eu-west-1", "sa-east-1", "us-west-1">>

\* the usage of the key at position k of a Cost Explorer answer
UsageGroup(k, profile, lookback) ==
    [instance_type |-> profile.instance_type,
     region        |-> UsageRegions[((k - 1) % Len(UsageRegions)) + 1],
     amounts       |-> UsageAmounts(profile.shape, profile.level,
                                    (profile.days * lookback)
                                        \div DefaultLookbackDays,
                                    lookback)]

SavingsPlanDetail(commitment, savings, utilization) ==
    [HourlyCommitment |-> commitment,
     EstimatedSavingsAmount |-> savings,
     EstimatedUtilizationPercentage |-> utilization]

\* get_savings_plans_recommendation: it raises, or it answers with details
SavingsPlanAnswers ==
    { [ok |-> FALSE, details |-> <<>>],
      [ok |-> TRUE,  details |-> <<>>],
      [ok |-> TRUE,  details |-> <<SavingsPlanDetail(2, 12000000, 95)>>],
      [ok |-> TRUE,  details |-> <<SavingsPlanDetail(1, 4000000, 90),
                                   SavingsPlanDetail(0, 0, 0)>>] }

RiIdle ==
    /\ lookback_period = 0
    /\ ce_usage = [ok |-> <<>>, ec2 |-> <<>>, rds |-> <<>>]
    /\ ce_savings_plans = [ok |-> FALSE, details |-> <<>>]
    /\ ri_recommendations = <<>>
    /\ sp_recommendations = <<>>
    /\ ri_sp_result = <<>>
    /\ usage_calls = 0
    /\ ri_pc = "idle"

\* RIOptimizer(session, lookback_days) in get_ri_and_sp_recommendations.
\* ce_usage.ok tells, for each of the two calls of analyze_usage_patterns,
\* whether its queries work.
RiInit ==
    /\ lookback_period \in LookbackPeriods
    /\ \E ok \in [1..2 -> BOOLEAN], n \in 0..MaxPatterns, m \in 0..1 :
          \E ec2 \in UsageLists(Ec2UsageProfiles, n),
             rds \in [1..m -> RdsUsageProfiles] :
              ce_usage =
                  [ok  |-> ok,
                   ec2 |-> [k \in 1..n |->
                               UsageGroup(k, ec2[k], lookback_period)],
                   rds |-> [k \in 1..m |->
                               UsageGroup(k, rds[k], lookback_period)]]
    /\ ce_savings_plans \in SavingsPlanAnswers
    /\ ri_recommendations = <<>>
    /\ sp_recommendations = <<>>
    /\ ri_sp_result = <<>>
    /\ usage_calls = 0
    /\ ri_pc = "ri"

\* ri_recommendations = optimizer.get_ri_recommendations()
GetRiRecommendations ==
    /\ ri_pc = "ri"
    /\ ri_recommendations' =
           get_ri_recommendations(
               analyze_usage_patterns(ce_usage.ok[1], ce_usage,
                                      lookback_period),
               lookback_period)
    /\ usage_calls' = usage_calls + 1
    /\ ri_pc' = "sp"
    /\ UNCHANGED <<lookback_period, ce_usage, ce_savings_plans,
                   sp_recommendations, ri_sp_result>>
    /\ UNCHANGED riOthers

\* sp_recommendations = optimizer.get_savings_plan_recommendations(); the
\* usage patterns are analysed again only on the way to the estimate
GetSavingsPlanRecommendations ==
    /\ ri_pc = "sp"
    /\ sp_recommendations' =
           get_savings_plan_recommendations(
               ce_savings_plans,
               analyze_usage_patterns(ce_usage.ok[2], ce_usage,
                                      lookback_period),
               lookback_period)
    /\ usage_calls' = IF ce_savings_plans.ok THEN usage_calls
                       ELSE usage_calls + 1
    /\ ri_pc' = "combine"
    /\ UNCHANGED <<lookback_period, ce_usage, ce_savings_plans,
                   ri_recommendations, ri_sp_result>>
    /\ UNCHANGED riOthers

\* The rest of get_ri_and_sp_recommendations: the totals and the returned
\* dict.  ri_recommendations['analysis_period'] raises KeyError when
\* get_ri_recommendations returned early.
CombineRiAndSp ==
    /\ ri_pc = "combine"
    /\ IF ri_recommendations.analysis_period = <<>>
       THEN /\ ri_pc' = "raised"
            /\ ri_sp_result' = ri_sp_result
       ELSE /\ ri_pc' = "done"
            /\ ri_sp_result' =
                   LET total_monthly_savings ==
                           ri_recommendations.estimated_savings
                               + sp_recommendations.estimated_total_savings
                   IN  [ri_recommendations |-> ri_recommendations.recommendations,
                        sp_recommendations |-> sp_recommendations.recommendations,
                        total_monthly_savings |-> total_monthly_savings,
                        total_annual_savings |-> total_monthly_savings * 12,
                        analysis_period_days |->
                            ri_recommendations.analysis_period[1].days,
                        confidence |-> ri_recommendations.confidence]
    /\ UNCHANGED <<lookback_period, ce_usage, ce_savings_plans,
                   ri_recommendations, sp_recommendations, usage_calls>>
    /\ UNCHANGED riOthers

RiNext ==
    \/ GetRiRecommendations
    \/ GetSavingsPlanRecommendations
    \/ CombineRiAndSp

-----------------------------------------------------------------------------
(* optimization_recommendations: unused resources, the provider's RI and   *)
(* Savings-Plans advice, and generate_optimization_recommendations.        *)
(* Money is in ten-thousandths of a dollar, as the right-sizing savings.   *)

\* the monthly cost of a volume: $0.10, $0.08 or $0.125 per GB by type, and
\* 0.0 for any other type
VolumeMonthlyCost(volume_type, volume_size) ==
    CASE volume_type = "gp2" -> volume_size * 1000
      [] volume_type = "gp3" -> volume_size * 800
      [] volume_type = "io1" -> volume_size * 1250
      [] OTHER -> 0

\* monthly_cost = 3.6 for an unattached Elastic IP
EipMonthlyCost == 36000

\* the recommendations for the detached volumes of a region: one for each
UnusedVolumes(region, volumes) ==
    [k \in 1..Len(volumes) |->
        [resource_id   |-> volumes[k].VolumeId,
         resource_type |-> "EBS Volume",
         region        |-> region,
         savings       |-> VolumeMonthlyCost(volumes[k].VolumeType,
                                             volumes[k].Size)]]

RECURSIVE UnusedAddresses(_, _)
\* one recommendation for each address without an AssociationId
UnusedAddresses(region, addresses) ==
    IF addresses = <<>> THEN <<>>
    ELSE (IF ~Head(addresses).associated
          THEN << [resource_id   |-> Head(addresses).AllocationId,
                   resource_type |-> "Elastic IP",
                   region        |-> region,
                   savings       |-> EipMonthlyCost] >>
          ELSE <<>>)
             \o UnusedAddresses(region, Tail(addresses))

RECURSIVE VolumesCost(_)
\* volumes_cost of a stopped instance: the attached volumes whose
\* describe_volumes call works, priced by type
VolumesCost(devices) ==
    IF devices = <<>> THEN 0
    ELSE (IF Head(devices).ok
          THEN VolumeMonthlyCost(Head(devices).VolumeType, Head(devices).Size)
          ELSE 0)
             + VolumesCost(Tail(devices))

RECURSIVE StoppedInstances(_, _)
\* one recommendation for each stopped instance with volumes_cost > 0
StoppedInstances(region, instances) ==
    IF instances = <<>> THEN <<>>
    ELSE (IF VolumesCost(Head(instances).devices) > 0
          THEN << [resource_id   |-> Head(instances).InstanceId,
                   resource_type |-> "EC2 Instance",
                   region        |-> region,
                   savings       |-> VolumesCost(Head(instances).devices)] >>
          ELSE <<>>)
             \o StoppedInstances(region, Tail(instances))

\* The body of the loop over the regions.  An exception ends the region; what
\* was appended before it stays.
UnusedInRegion(region, answer) ==
    IF answer.fail_at = "volumes" THEN <<>>
    ELSE UnusedVolumes(region, answer.volumes)
         \o (IF answer.fail_at = "addresses" THEN <<>>
             ELSE UnusedAddresses(region, answer.addresses)
                  \o (IF answer.fail_at = "instances" THEN <<>>
                      ELSE StoppedInstances(region, answer.stopped)))

RECURSIVE UnusedInRegions(_, _)
UnusedInRegions(regions, answers) ==
    IF regions = <<>> THEN <<>>
    ELSE UnusedInRegion(Head(regions), Head(answers))
             \o UnusedInRegions(Tail(regions), Tail(answers))

\* analyze_unused_resources: every region in turn, then the sort
analyze_unused_resources(regions, answers) ==
    SortDesc(UnusedInRegions(regions, answers), SavingsOf)

MonthlySavingsOf(rec) == rec.monthly_savings

RECURSIVE RiOpportunities(_)
\* the loop of analyze_ri_opportunities over the details: a detail without
\* an instance type is passed over, and so is one that saves nothing
RiOpportunities(details) ==
    IF details = <<>> THEN <<>>
    ELSE LET detail == Head(details)
         IN  (IF detail.InstanceType = "" THEN <<>>
              ELSE IF detail.EstimatedMonthlySavings > 0
              THEN << [instance_type     |-> detail.InstanceType,
                       recommended_count |->
                           detail.RecommendedNumberOfInstancesToPurchase,
                       monthly_savings   |-> detail.EstimatedMonthlySavings,
                       upfront_cost      |-> detail.UpfrontCost,
                       break_even_months |->
                           Frac(detail.UpfrontCost,
                                detail.EstimatedMonthlySavings)] >>
              ELSE <<>>)
             \o RiOpportunities(Tail(details))

\* analyze_ri_opportunities: nothing when the provider call raises
analyze_ri_opportunities(answer) ==
    IF ~answer.ok THEN <<>>
    ELSE SortDesc(RiOpportunities(answer.details), MonthlySavingsOf)

RECURSIVE SavingsPlansOpportunities(_)
SavingsPlansOpportunities(details) ==
    IF details = <<>> THEN <<>>
    ELSE LET recommendation == Head(details)
         IN  (IF recommendation.EstimatedMonthlySavings > 0
              THEN << [plan_type         |-> "Compute Savings Plan",
                       hourly_commitment |-> recommendation.HourlyCommitment,
                       monthly_savings   |->
                           recommendation.EstimatedMonthlySavings,
                       estimated_utilization |->
                           recommendation.EstimatedSavingsPercentage] >>
              ELSE <<>>)
             \o SavingsPlansOpportunities(Tail(details))

\* analyze_savings_plans_opportunities: nothing when the provider call
\* raises
analyze_savings_plans_opportunities(answer) ==
    IF ~answer.ok THEN <<>>
    ELSE SortDesc(SavingsPlansOpportunities(answer.details), MonthlySavingsOf)

\* (mutant) the Savings-Plans subtotal left out of the total
TotalWithoutSavingsPlans(summary) ==
    summary.ec2_savings + summary.resource_savings + summary.ri_savings

\* total_potential_savings: the sum of the four subtotals
TotalPotentialSavings(summary) ==
    summary.ec2_savings + summary.resource_savings + summary.ri_savings
        + summary.savings_plans_savings

\* `result` as generate_optimization_recommendations first builds it
EmptyOptimizationResult ==
    [ec2_recommendations |-> <<>>,
     resource_recommendations |-> <<>>,
     ri_recommendations |-> <<>>,
     savings_plans_recommendations |-> <<>>,
     summary |-> [total_potential_savings |-> 0,
                  ec2_savings |-> 0,
                  resource_savings |-> 0,
                  ri_savings |-> 0,
                  savings_plans_savings |-> 0]]

\* ---- what the account holds

Volume(id, size, type) == [VolumeId |-> id, Size |-> size, VolumeType |-> type]

Address(id, associated) == [AllocationId |-> id, associated |-> associated]

Device(ok, size, type) == [ok |-> ok, Size |-> size, VolumeType |-> type]

Stopped(id, devices) == [InstanceId |-> id, devices |-> devices]

\* detached volumes: none, one gp2, a large st1 and a gp3
VolumeLists ==
    { <<>>,
      <<Volume("vol-1", 100, "gp2")>>,
      <<Volume("vol-2", 500, "st1"), Volume("vol-3", 50, "gp3")>> }

\* addresses: none, one free and one in use
AddressLists ==
    { <<>>, <<Address("eipalloc-1", FALSE), Address("eipalloc-2", TRUE)>> }

\* stopped instances: none, one with a gp2 volume and one that cannot be
\* described, one with an sc1 volume only
StoppedLists ==
    { <<>>,
      <<Stopped("i-8", <<Device(TRUE, 8, "gp2"), Device(FALSE, 100, "io1")>>)>>,
      <<Stopped("i-9", <<Device(TRUE, 500, "sc1")>>)>> }

RegionAnswer(fail_at, volumes, addresses, stopped) ==
    [fail_at |-> fail_at, volumes |-> volumes, addresses |-> addresses,
     stopped |-> stopped]

\* a region that holds everything, used for the calls that fail
FullRegion(fail_at) ==
    RegionAnswer(fail_at,
                 <<Volume("vol-1", 100, "gp2")>>,
                 <<Address("eipalloc-1", FALSE)>>,
                 <<Stopped("i-8", <<Device(TRUE, 8, "gp2")>>)>>)

\* the first region: any holdings with every call working, or everything
\* with one call failing
FirstRegionAnswers ==
    {RegionAnswer("none", v, a, s) :
         v \in VolumeLists, a \in AddressLists, s \in StoppedLists}
        \cup {FullRegion(f) : f \in {"volumes", "addresses", "instances"}}

\* the second region: empty, unreachable, or a small volume and an address
SecondRegionAnswers ==
    { RegionAnswer("none", <<>>, <<>>, <<>>),
      FullRegion("volumes"),
      RegionAnswer("none", <<Volume("vol-9", 20, "io1")>>,
                   <<Address("eipalloc-9", FALSE)>>, <<>>) }

\* running instances: none, or an idle t3.large and an idle m5.4xlarge
RunningLists ==
    { <<>>,
      <<InstanceAt(1, T("t3", "large"), [metric_ok |-> TRUE,
                                         datapoints |-> <<DP(8, 35)>>]),
        InstanceAt(2, T("m5", "4xlarge"), [metric_ok |-> TRUE,
                                           datapoints |-> <<DP(8, 35)>>])>> }

RiDetail(type, count, savings, upfront) ==
    [InstanceType |-> type,
     RecommendedNumberOfInstancesToPurchase |-> count,
     EstimatedMonthlySavings |-> savings,
     UpfrontCost |-> upfront]

\* get_reservation_purchase_recommendation: it raises, it has nothing, or
\* it lists a detail without a type, one that saves nothing, and two that
\* save
RiAnswers ==
    { [ok |-> FALSE, details |-> <<>>],
      [ok |-> TRUE,  details |-> <<>>],
      [ok |-> TRUE,  details |-> <<RiDetail("", 1, 900000, 0),
                                   RiDetail("m5.large", 1, 0, 0),
                                   RiDetail("c5.large", 2, 250000, 1000000),
                                   RiDetail("m5.large", 1, 610000, 0)>>] }

SpDetail(commitment, savings, percentage) ==
    [HourlyCommitment |-> commitment,
     EstimatedMonthlySavings |-> savings,
     EstimatedSavingsPercentage |-> percentage]

\* get_savings_plans_purchase_recommendation: the same three kinds
SpAnswers ==
    { [ok |-> FALSE, details |-> <<>>],
      [ok |-> TRUE,  details |-> <<>>],
      [ok |-> TRUE,  details |-> <<SpDetail(0, 0, 0),
                                   SpDetail(5000, 400000, 20)>>] }

OptIdle ==
    /\ opt_flags = <<>>
    /\ opt_account = <<>>
    /\ opt_result = <<>>
    /\ opt_pc = "idle"

\* generate_optimization_recommendations(session, analyze_ec2,
\* analyze_resources, analyze_reservations, analyze_savings_plans)
OptInit ==
    /\ opt_flags \in [analyze_ec2 : BOOLEAN, analyze_resources : BOOLEAN,
                      analyze_reservations : BOOLEAN,
                      analyze_savings_plans : BOOLEAN]
    /\ \E running \in RunningLists, r1 \in FirstRegionAnswers,
          r2 \in SecondRegionAnswers, ri \in RiAnswers, sp \in SpAnswers :
          opt_account = [running |-> running, regions |-> <<r1, r2>>,
                         ri |-> ri, sp |-> sp]
    /\ opt_result = EmptyOptimizationResult
    /\ opt_pc = "ec2"

\* `if analyze_ec2:` the right-sizing list and its subtotal
OptAnalyzeEc2 ==
    /\ opt_pc = "ec2"
    /\ opt_result' =
           IF opt_flags.analyze_ec2
           THEN LET recs == analyze_ec2_right_sizing(opt_account.running,
                                                     DefaultCpuThreshold)
                IN  [opt_result EXCEPT
                        !.ec2_recommendations = recs,
                        !.summary.ec2_savings =
                            SumSeq([k \in 1..Len(recs) |-> recs[k].savings])]
           ELSE opt_result
    /\ opt_pc' = "resources"
    /\ UNCHANGED <<opt_flags, opt_account>>
    /\ UNCHANGED optOthers

\* `if analyze_resources:` the unused resources and their subtotal
OptAnalyzeResources ==
    /\ opt_pc = "resources"
    /\ opt_result' =
           IF opt_flags.analyze_resources
           THEN LET recs == analyze_unused_resources(Regions,
                                                     opt_account.regions)
                IN  [opt_result EXCEPT
                        !.resource_recommendations = recs,
                        !.summary.resource_savings =
                            SumSeq([k \in 1..Len(recs) |-> recs[k].savings])]
           ELSE opt_result
    /\ opt_pc' = "reservations"
    /\ UNCHANGED <<opt_flags, opt_account>>
    /\ UNCHANGED optOthers

\* `if analyze_reservations:` the RI opportunities and their subtotal
OptAnalyzeReservations ==
    /\ opt_pc = "reservations"
    /\ opt_result' =
           IF opt_flags.analyze_reservations
           THEN LET recs == analyze_ri_opportunities(opt_account.ri)
                IN  [opt_result EXCEPT
                        !.ri_recommendations = recs,
                        !.summary.ri_savings =
                            SumSeq([k \in 1..Len(recs) |->
                                       recs[k].monthly_savings])]
           ELSE opt_result
    /\ opt_pc' = "savings_plans"
    /\ UNCHANGED <<opt_flags, opt_account>>
    /\ UNCHANGED optOthers

\* `if analyze_savings_plans:` the Savings-Plans opportunities and their
\* subtotal
OptAnalyzeSavingsPlans ==
    /\ opt_pc = "savings_plans"
    /\ opt_result' =
           IF opt_flags.analyze_savings_plans
           THEN LET recs == analyze_savings_plans_opportunities(opt_account.sp)
                IN  [opt_result EXCEPT
                        !.savings_plans_recommendations = recs,
                        !.summary.savings_plans_savings =
                            SumSeq([k \in 1..Len(recs) |->
                                       recs[k].monthly_savings])]
           ELSE opt_result
    /\ opt_pc' = "total"
    /\ UNCHANGED <<opt_flags, opt_account>>
    /\ UNCHANGED optOthers

\* the total, and the return
OptTotal ==
    /\ opt_pc = "total"
    /\ opt_result' =
           [opt_result EXCEPT
               !.summary.total_potential_savings =
                   TotalPotentialSavings(opt_result.summary)]
    /\ opt_pc' = "done"
    /\ UNCHANGED <<opt_flags, opt_account>>
    /\ UNCHANGED optOthers

OptNext ==
    \/ OptAnalyzeEc2
    \/ OptAnalyzeResources
    \/ OptAnalyzeReservations
    \/ OptAnalyzeSavingsPlans
    \/ OptTotal

-----------------------------------------------------------------------------
(* resource_analyzer: UnusedResourceAnalyzer.analyze_ec2_instances         *)

\* _estimate_ec2_monthly_cost: hourly_rate * 24 * 30, with base_prices (0.1
\* if unknown) and region_multipliers (1.0 if unknown) the tables the RI
\* optimizer has too; in millionths of a dollar
estimate_ec2_monthly_cost(instance_type, region) ==
    Lookup(EC2_BASE_PRICES, instance_type, 1000)
        * Lookup(REGION_MULTIPLIERS, region, 100) * 24 * 30

\* base_prices of _estimate_ebs_monthly_cost, per GB-month, in thousandths
\* of a dollar
EBS_BASE_PRICES ==
    << <<"gp2", 100>>, <<"gp3", 80>>, <<"io1", 125>>, <<"io2", 125>>,
       <<"st1", 45>>, <<"sc1", 25>>, <<"standard", 50>> >>

\* _estimate_ebs_monthly_cost: gb_month_rate * size_gb, in millionths of a
\* dollar
estimate_ebs_monthly_cost(size_gb, volume_type, region) ==
    Lookup(EBS_BASE_PRICES, volume_type, 100)
        * Lookup(REGION_MULTIPLIERS, region, 100) * 10 * size_gb

\* datetime.datetime.now(), in hours
NowHours == 1000

\* instance.state_transition_reason: with a date in brackets ("User
\* initiated (2024-01-15 12:00:00 GMT)"), without brackets (""), or with
\* brackets that hold no date ("Server.SpotInstanceTermination (n/a)")
DatedReason(hour) == [brackets |-> TRUE, parses |-> TRUE, hour |-> hour]
PlainReason == [brackets |-> FALSE, parses |-> FALSE, hour |-> 0]
UndatedReason == [brackets |-> TRUE, parses |-> FALSE, hour |-> 0]

\* stopped_date.strftime('%Y-%m-%d'): the day of the hour
FormatDay(hour) == ToString(hour \div 24)

\* (datetime.datetime.now() - stopped_date).days
DaysSince(hour) == (NowHours - hour) \div 24

\* The try block of a stopped instance: <<days_stopped, stopped_date>>.
\* stopped_date is bound only when strptime returns; a reason without
\* brackets or a strptime that raises leaves the local as it was.
ParseStopped(reason, local_stopped_date, lookback) ==
    IF reason.brackets /\ reason.parses
    THEN <<DaysSince(reason.hour), <<reason.hour>> >>
    ELSE <<lookback, local_stopped_date>>

\* the entry appended for a stopped instance
StoppedEntry(instance, region, days_stopped, local_stopped_date) ==
    [resource_id   |-> instance.id,
     region        |-> region,
     state         |-> "stopped",
     days_unused   |-> days_stopped,
     estimated_monthly_cost |->
         estimate_ec2_monthly_cost(instance.instance_type, region),
     \* ... if 'stopped_date' in locals() else 'Unknown'
     last_used     |-> IF local_stopped_date # <<>>
                       THEN FormatDay(local_stopped_date[1]) ELSE "Unknown"]

\* avg_cpu < 5.0, with avg_cpu = sum(Average) / len(Datapoints)
IsUnusedCpu(datapoints) == SumSeq(datapoints) < 5 * Len(datapoints)

\* the entry appended for a running instance of little CPU use
UnderutilizedEntry(instance, region, lookback) ==
    [resource_id   |-> instance.id,
     region        |-> region,
     state         |-> "underutilized",
     days_unused   |-> lookback,
     estimated_monthly_cost |->
         estimate_ec2_monthly_cost(instance.instance_type, region),
     last_used     |-> "Currently running"]

\* ---- the instances EC2 can list

MaxListed == 2

Vol(size, type) == [size |-> size, volume_type |-> type]

\* One instance as EC2 and CloudWatch show it.  volumes are the attached
\* EBS volumes, metric_ok whether get_metric_statistics returns, datapoints
\* the daily Average values.
Listed(state, type, reason, volumes, metric_ok, datapoints) ==
    [state |-> state, instance_type |-> type,
     state_transition_reason |-> reason, volumes |-> volumes,
     metric_ok |-> metric_ok, datapoints |-> datapoints]

ListedKinds ==
    { Listed("terminated", "t2.micro", PlainReason, <<>>, TRUE, <<>>),
      Listed("stopped", "m5.large", DatedReason(200),
             <<Vol(100, "gp2")>>, TRUE, <<>>),
      Listed("stopped", "t3.micro", DatedReason(830),
             <<Vol(50, "gp3"), Vol(10, "io1")>>, TRUE, <<>>),
      Listed("stopped", "c5.large", PlainReason,
             <<Vol(20, "st1")>>, TRUE, <<>>),
      Listed("stopped", "x9.huge", UndatedReason, <<>>, TRUE, <<>>),
      Listed("running", "m5.xlarge", PlainReason,
             <<Vol(8, "gp2")>>, TRUE, <<2, 3>>),
      Listed("running", "t2.small", PlainReason,
             <<Vol(8, "gp2")>>, TRUE, <<>>),
      Listed("running", "r5.large", PlainReason,
             <<Vol(8, "gp2")>>, FALSE, <<>>),
      Listed("running", "c5.xlarge", PlainReason,
             <<Vol(8, "gp2")>>, TRUE, <<4, 6>>) }

\* the kinds of the second region
FarKinds ==
    {k \in ListedKinds :
        \/ k.state = "running" /\ k.instance_type \in {"m5.xlarge", "r5.large"}
        \/ k.state = "stopped" /\ k.instance_type \in {"c5.large", "m5.large"}}

ScanRegions == <<"us-east-1", "eu-west-1">>

\* the instance at position k of region r
ListedAt(r, k, kind) ==
    [id |-> <<r, k>>, state |-> kind.state,
     instance_type |-> kind.instance_type,
     state_transition_reason |-> kind.state_transition_reason,
     volumes |-> kind.volumes, metric_ok |-> kind.metric_ok,
     datapoints |-> kind.datapoints]

\* 14: the default lookback_period of UnusedResourceAnalyzer
AnalyzerLookbackDays == 14

UraIdle ==
    /\ ec2_regions = <<>>
    /\ analyzer_lookback = 0
    /\ unused_instances = <<>>
    /\ stopped_date = <<>>
    /\ ura_pc = "idle"
    /\ ura_r = 0
    /\ ura_i = 0

\* analyze_ec2_instances(regions) is entered: up to MaxListed instances in
\* the first region, at most one in the second, which may fail to list
UraInit ==
    /\ \E n \in 0..MaxListed, m \in 0..1, far_ok \in BOOLEAN :
          \E near \in [1..n -> ListedKinds], far \in [1..m -> FarKinds] :
              ec2_regions =
                  << [region |-> ScanRegions[1], list_ok |-> TRUE,
                      instances |-> [k \in 1..n |-> ListedAt(1, k, near[k])]],
                     [region |-> ScanRegions[2], list_ok |-> far_ok,
                      instances |-> [k \in 1..m |-> ListedAt(2, k, far[k])]] >>
    /\ analyzer_lookback = AnalyzerLookbackDays
    /\ unused_instances = <<>>
    /\ stopped_date = <<>>
    /\ ura_pc = "region"
    /\ ura_r = 1
    /\ ura_i = 0

\* `for region in regions`: instances = list(ec2.instances.all()); when it
\* raises, the region's handler prints and the loop goes on
UraEnterRegion ==
    /\ ura_pc = "region"
    /\ ura_r <= Len(ec2_regions)
    /\ IF ec2_regions[ura_r].list_ok
       THEN /\ ura_pc' = "instance"
            /\ ura_i' = 1
            /\ ura_r' = ura_r
       ELSE /\ ura_pc' = "region"
            /\ ura_i' = ura_i
            /\ ura_r' = ura_r + 1
    /\ UNCHANGED <<ec2_regions, analyzer_lookback, unused_instances,
                   stopped_date>>
    /\ UNCHANGED uraOthers

\* One iteration of `for instance in instances`.  get_metric_statistics is
\* called outside any handler of its own: when it raises, the region's
\* handler takes over and the rest of the region is not looked at.
UraAnalyzeInstance ==
    /\ ura_pc = "instance"
    /\ ura_i <= Len(ec2_regions[ura_r].instances)
    /\ LET region == ec2_regions[ura_r].region
           instance == ec2_regions[ura_r].instances[ura_i]
           parsed == ParseStopped(instance.state_transition_reason,
                                  stopped_date, analyzer_lookback)
       IN  CASE instance.state = "stopped" ->
                  /\ stopped_date' = parsed[2]
                  /\ unused_instances' =
                         Append(unused_instances,
                                StoppedEntry(instance, region, parsed[1],
                                             parsed[2]))
                  /\ ura_i' = ura_i + 1
                  /\ UNCHANGED <<ura_pc, ura_r>>
             [] instance.state = "running" /\ ~instance.metric_ok ->
                  /\ ura_pc' = "region"
                  /\ ura_r' = ura_r + 1
                  /\ UNCHANGED <<unused_instances, stopped_date, ura_i>>
             [] instance.state = "running" /\ instance.metric_ok ->
                  /\ unused_instances' =
                         IF instance.datapoints # <<>>
                                /\ IsUnusedCpu(instance.datapoints)
                         THEN Append(unused_instances,
                                     UnderutilizedEntry(instance, region,
                                                        analyzer_lookback))
                         ELSE unused_instances
                  /\ ura_i' = ura_i + 1
                  /\ UNCHANGED <<stopped_date, ura_pc, ura_r>>
             [] OTHER ->                   \* terminated, or any other state
                  /\ ura_i' = ura_i + 1
                  /\ UNCHANGED <<unused_instances, stopped_date, ura_pc, ura_r>>
    /\ UNCHANGED <<ec2_regions, analyzer_lookback>>
    /\ UNCHANGED uraOthers

\* the instances of the region are exhausted
UraLeaveRegion ==
    /\ ura_pc = "instance"
    /\ ura_i > Len(ec2_regions[ura_r].instances)
    /\ ura_pc' = "region"
    /\ ura_r' = ura_r + 1
    /\ UNCHANGED <<ec2_regions, analyzer_lookback, unused_instances,
                   stopped_date, ura_i>>
    /\ UNCHANGED uraOthers

\* return unused_instances
UraReturn ==
    /\ ura_pc = "region"
    /\ ura_r > Len(ec2_regions)
    /\ ura_pc' = "done"
    /\ UNCHANGED <<ec2_regions, analyzer_lookback, unused_instances,
                   stopped_date, ura_r, ura_i>>
    /\ UNCHANGED uraOthers

UraNext ==
    \/ UraEnterRegion
    \/ UraAnalyzeInstance
    \/ UraLeaveRegion
    \/ UraReturn

-----------------------------------------------------------------------------
(* web_ui.run_task_thread and api._run_task: tasks in background threads   *)

MaxTasks == 2

MaxPolls == 1

\* the stream sys.stdout is bound to when the server starts
OriginalStdout == "stdout"

\* the AnsiPreservingStringIO of each thread
CaptureNames == <<"capture1", "capture2", "capture3">>

Unbound == "unbound"

\* One request.  via: the handler that takes it (web_ui.api_run_task or
\* api.run_task).  profiles_usable: whether _initialize_profiles finds a
\* profile to use (else it raises SystemExit).  listdir_ok: whether
\* os.listdir(args.dir) returns.
TaskRequest(via, task_type, profiles_usable, listdir_ok) ==
    [via |-> via, task_type |-> task_type,
     profiles_usable |-> profiles_usable, listdir_ok |-> listdir_ok]

TaskRequests ==
    { TaskRequest("web_ui", "dashboard", TRUE, TRUE),
      TaskRequest("web_ui", "dashboard", TRUE, FALSE),
      TaskRequest("web_ui", "dashboard", FALSE, TRUE),
      TaskRequest("web_ui", "ri_optimizer", TRUE, TRUE),
      TaskRequest("web_ui", "resource_analyzer", TRUE, TRUE),
      TaskRequest("api", "dashboard", TRUE, TRUE),
      TaskRequest("api", "ri_optimizer", FALSE, TRUE) }

TaskTypes == {r.task_type : r \in TaskRequests}

\* task_results[task_type] = {'status': ..., 'output': ..., 'files': ...};
\* output is the captured text, as the list of the threads that printed it
TaskResult(status, output) == [status |-> status, output |-> output]

\* dict item assignment: the key is added or its value replaced
SetItem(dict, key, value) ==
    [k \in DOMAIN dict \cup {key} |-> IF k = key THEN value ELSE dict[k]]

\* print(...) / console.print(...) by thread t: the text goes to the stream
\* sys.stdout is bound to at that moment
Printed(t) == [stream_text EXCEPT ![sys_stdout] = Append(@, t)]

\* task_status (api.py) and get_task_results (web_ui.py): the stored result,
\* or 'not_found' when task_results has no such key
task_status(task_type) ==
    IF task_type \in DOMAIN task_results
    THEN [task_type |-> task_type,
          status |-> task_results[task_type].status,
          output |-> task_results[task_type].output]
    ELSE [task_type |-> task_type, status |-> "not_found", output |-> <<>>]

NoReply == [task_type |-> "", status |-> "", output |-> <<>>]

TaskIdle ==
    /\ tasks = <<>>
    /\ task_results = <<>>
    /\ sys_stdout = ""
    /\ stream_text = <<>>
    /\ old_stdout = <<>>
    /\ task_pc = <<>>
    /\ status_reply = NoReply
    /\ polls = 0

\* the server is up: task_results = {}, nothing printed, no thread started
TaskInit ==
    /\ \E n \in 1..MaxTasks : tasks \in [1..n -> TaskRequests]
    /\ task_results = <<>>
    /\ sys_stdout = OriginalStdout
    /\ stream_text =
           [s \in {OriginalStdout}
                    \cup {CaptureNames[t] : t \in 1..Len(tasks)} |-> <<>>]
    /\ old_stdout = [t \in 1..Len(tasks) |-> Unbound]
    /\ task_pc = [t \in 1..Len(tasks) |-> "idle"]
    /\ status_reply = NoReply
    /\ polls = 0

\* api_run_task (web_ui.py) and run_task (api.py): the handler starts the
\* thread and answers at once
StartTask(t) ==
    /\ task_pc[t] = "idle"
    /\ task_pc' = [task_pc EXCEPT ![t] = "start"]
    /\ UNCHANGED <<tasks, task_results, sys_stdout, stream_text, old_stdout,
                   status_reply, polls>>
    /\ UNCHANGED taskOthers

\* run_task_thread up to the choice of the task: the result is set to
\* 'running' and sys.stdout is swapped for the thread's capture
RunTaskThreadBegin(t) ==
    /\ task_pc[t] = "start"
    /\ tasks[t].via = "web_ui"
    /\ task_results' =
           SetItem(task_results, tasks[t].task_type,
                   TaskResult("running", <<>>))
    /\ old_stdout' = [old_stdout EXCEPT ![t] = sys_stdout]
    /\ sys_stdout' = CaptureNames[t]
    /\ task_pc' = [task_pc EXCEPT ![t] = "run"]
    /\ UNCHANGED <<tasks, stream_text, status_reply, polls>>
    /\ UNCHANGED taskOthers

\* The task itself.  RIOptimizer(profiles=...) and
\* UnusedResourceAnalyzer(profiles=...) raise TypeError: neither constructor
\* has such parameters.  run_dashboard prints, and either returns (it
\* catches Exception itself) or lets the SystemExit of _initialize_profiles
\* through; SystemExit is no Exception, so no handler of run_task_thread
\* runs and the thread ends there.
RunTaskThreadBody(t) ==
    /\ task_pc[t] = "run"
    /\ IF tasks[t].task_type \in {"ri_optimizer", "resource_analyzer"}
       THEN /\ task_pc' = [task_pc EXCEPT ![t] = "except"]
            /\ UNCHANGED stream_text
       ELSE /\ stream_text' = Printed(t)
            /\ task_pc' = [task_pc EXCEPT ![t] =
                              IF tasks[t].profiles_usable
                              THEN "finish" ELSE "ended"]
    /\ UNCHANGED <<tasks, task_results, sys_stdout, old_stdout, status_reply,
                   polls>>
    /\ UNCHANGED taskOthers

\* After the task: sys.stdout = old_stdout, raw_output = getvalue(), the
\* files are listed and the result is set to 'completed'; os.listdir
\* raising leads to the handler.
RunTaskThreadFinish(t) ==
    /\ task_pc[t] = "finish"
    /\ sys_stdout' = old_stdout[t]
    /\ IF tasks[t].listdir_ok
       THEN /\ task_results' =
                   SetItem(task_results, tasks[t].task_type,
                           TaskResult("completed",
                                      stream_text[CaptureNames[t]]))
            /\ task_pc' = [task_pc EXCEPT ![t] = "ended"]
       ELSE /\ task_pc' = [task_pc EXCEPT ![t] = "except"]
            /\ UNCHANGED task_results
    /\ UNCHANGED <<tasks, stream_text, old_stdout, status_reply, polls>>
    /\ UNCHANGED taskOthers

\* `except Exception`: sys.stdout = old_stdout, the result is set to 'error'
\* with what the capture holds
RunTaskThreadExcept(t) ==
    /\ task_pc[t] = "except"
    /\ sys_stdout' = old_stdout[t]
    /\ task_results' =
           SetItem(task_results, tasks[t].task_type,
                   TaskResult("error", stream_text[CaptureNames[t]]))
    /\ task_pc' = [task_pc EXCEPT ![t] = "ended"]
    /\ UNCHANGED <<tasks, stream_text, old_stdout, status_reply, polls>>
    /\ UNCHANGED taskOthers

\* _run_task (api.py): run_dashboard(args) prints and returns or exits; the
\* thread ends without a word to task_results
ApiRunTaskBody(t) ==
    /\ task_pc[t] = "start"
    /\ tasks[t].via = "api"
    /\ stream_text' = Printed(t)
    /\ task_pc' = [task_pc EXCEPT ![t] = "ended"]
    /\ UNCHANGED <<tasks, task_results, sys_stdout, old_stdout, status_reply,
                   polls>>
    /\ UNCHANGED taskOthers

\* GET /api/task_status?task_type=...
TaskStatus(task_type) ==
    /\ polls < MaxPolls
    /\ \E t \in 1..Len(tasks) : task_pc[t] # "idle"
    /\ status_reply' = task_status(task_type)
    /\ polls' = polls + 1
    /\ UNCHANGED <<tasks, task_results, sys_stdout, stream_text, old_stdout,
                   task_pc>>
    /\ UNCHANGED taskOthers

\* the steps of thread t, the handler that starts it included
ThreadStep(t) ==
    \/ StartTask(t)
    \/ RunTaskThreadBegin(t)
    \/ RunTaskThreadBody(t)
    \/ RunTaskThreadFinish(t)
    \/ RunTaskThreadExcept(t)
    \/ ApiRunTaskBody(t)

TaskNext ==
    \/ \E t \in 1..Len(tasks) : ThreadStep(t)
    \/ \E task_type \in TaskTypes : TaskStatus(task_type)

-----------------------------------------------------------------------------
(* Properties of the dashboard run.                                        *)

\* the amount an export entry lists for a service (0 when it lists none)
EntryCost(entry, service) ==
    SumSeq([k \in 1..Len(entry.service_costs) |->
               IF entry.service_costs[k][1] = service
               THEN entry.service_costs[k][2] ELSE 0])

\* what one profile was billed for a service (0 when its retrieval fails)
ProfileCost(profile, service) ==
    IF gateway[profile].cost_ok
    THEN LET groups == gateway[profile].cost.groups
         IN  SumSeq([k \in 1..Len(groups) |->
                        IF groups[k][1] = service THEN groups[k][2] ELSE 0])
    ELSE 0

\* the sum of a service's amounts over all the profiles of a group
GroupTotal(profiles, service) ==
    SumSeq([k \in 1..Len(profiles) |-> ProfileCost(profiles[k], service)])

IsCombinedEntry(entry) == Len(entry.profile) > 1

\* cost retrieval worked for every profile of the group
AllCostOk(profiles) ==
    \A k \in 1..Len(profiles) : gateway[profiles[k]].cost_ok

\* C1: in every combined entry, each service's merged cost is the sum of that
\* service's amounts over all the profiles of the group (stated for groups
\* whose retrievals all worked and for the services that some profile of the
\* group is billed above the materiality threshold).
C1_MergedCostIsSumOverProfiles ==
    \A i \in 1..Len(export_data) :
        (IsCombinedEntry(export_data[i]) /\ AllCostOk(export_data[i].profile)) =>
            \A k \in 1..Len(Services) :
                LET group == export_data[i].profile
                    billed == \E j \in 1..Len(group) :
                        ProfileCost(group[j], Services[k]) > MaterialityThreshold
                IN  billed => EntryCost(export_data[i], Services[k])
                                  = GroupTotal(group, Services[k])

\* the merged totals of an entry: per-service costs and the period totals
MergedTotals(entry) ==
    <<Range(entry.service_costs), entry.current_month, entry.last_month>>

\* C2: the merged totals of a combined entry are the same for every order in
\* which the profiles of its group could have been listed (stated for groups
\* whose retrievals all worked).
C2_MergeIsOrderIndependent ==
    \A i \in 1..Len(export_data) :
        (IsCombinedEntry(export_data[i]) /\ AllCostOk(export_data[i].profile)) =>
            \A perm \in SeqPermutations(export_data[i].profile) :
                MergedTotals(process_combined_profiles(
                    export_data[i].account_id, perm))
                = MergedTotals(export_data[i])

\* what one profile was billed in the current period (0 when its retrieval
\* fails)
ProfileCurrentMonth(profile) ==
    IF gateway[profile].cost_ok THEN gateway[profile].cost.current_month ELSE 0

\* the same for the previous period
ProfileLastMonth(profile) ==
    IF gateway[profile].cost_ok THEN gateway[profile].cost.last_month ELSE 0

\* C11: in a combined entry of a group in which cost retrieval fails for
\* some profile, the failed profile counts for zero: the period totals and
\* each billed service's cost are the sums over the profiles whose retrieval
\* worked.
C11_FailedProfileContributesZero ==
    \A i \in 1..Len(export_data) :
        (IsCombinedEntry(export_data[i]) /\ ~AllCostOk(export_data[i].profile)) =>
            LET group == export_data[i].profile
            IN  /\ export_data[i].current_month =
                       SumSeq([j \in 1..Len(group) |->
                                  ProfileCurrentMonth(group[j])])
                /\ export_data[i].last_month =
                       SumSeq([j \in 1..Len(group) |->
                                  ProfileLastMonth(group[j])])
                /\ \A k \in 1..Len(Services) :
                       (\E j \in 1..Len(group) :
                           ProfileCost(group[j], Services[k])
                               > MaterialityThreshold)
                       => EntryCost(export_data[i], Services[k])
                              = GroupTotal(group, Services[k])

\* the position of a profile in the input list
InputPosition(profile) ==
    CHOOSE k \in 1..Len(profiles_to_use) : profiles_to_use[k] = profile

\* cost retrieval fails for some profile of the entry's unit
HasFailedProfile(entry) == ~AllCostOk(entry.profile)

\* C12: when the run is over, a unit (profile, or account in combine mode)
\* for which cost retrieval fails has an error entry (success = false), every
\* unit without a failure has a successful entry, a profile processed alone
\* has exactly the results of its own retrieval, and the entries follow the
\* input order.
C12_FailureIsolatedToItsUnit ==
    dash_pc = "done" =>
        /\ \A i \in 1..Len(export_data) :
              /\ HasFailedProfile(export_data[i]) <=> ~export_data[i].success
              /\ ~IsCombinedEntry(export_data[i]) =>
                     export_data[i] =
                         process_single_profile(export_data[i].profile[1])
        /\ \A i, j \in 1..Len(export_data) :
              i < j => InputPosition(export_data[i].profile[1])
                           < InputPosition(export_data[j].profile[1])
        /\ ~combine =>
              /\ Len(export_data) = Len(profiles_to_use)
              /\ \A i \in 1..Len(export_data) :
                    export_data[i].profile = <<profiles_to_use[i]>>

\* the entry lists the service
ListsService(entry, service) ==
    \E k \in 1..Len(entry.service_costs) : entry.service_costs[k][1] = service

\* C23: the merged per-service view of a combined account lists a service
\* if and only if the service's total summed over the profiles of the group
\* exceeds the materiality threshold: small records that add up to more
\* than the threshold are kept, and no service with a total at or below it
\* is listed (stated for groups whose retrievals all worked).
C23_ThresholdAppliesToTotals ==
    \A i \in 1..Len(export_data) :
        (IsCombinedEntry(export_data[i]) /\ AllCostOk(export_data[i].profile)) =>
            \A k \in 1..Len(Services) :
                ListsService(export_data[i], Services[k])
                    <=> GroupTotal(export_data[i].profile, Services[k])
                            > MaterialityThreshold

\* the entries of the export data that hold the profile
EntriesOf(profile) ==
    {i \in 1..Len(export_data) :
        \E k \in 1..Len(export_data[i].profile) :
            export_data[i].profile[k] = profile}

\* C28: when a run in combine mode is over, every selected profile is in
\* exactly one entry of the export data, the profiles whose account id
\* could not be resolved included.
C28_EveryProfileReportedOnce ==
    dash_pc = "done" /\ combine =>
        \A k \in 1..Len(profiles_to_use) :
            Cardinality(EntriesOf(profiles_to_use[k])) = 1

-----------------------------------------------------------------------------
(* Properties of the right-sizing analysis.                                *)

\* C3: every right-sizing recommendation has monthly savings strictly above 0.
C3_ResizeSavingsPositive ==
    \A k \in 1..Len(recommendations) : recommendations[k].savings > 0

\* the type is the element right after `smaller` in the ladder of its family
IsOneStepDown(smaller, type) ==
    /\ Len(type) = 2
    /\ type[1] \in DOMAIN INSTANCE_FAMILIES
    /\ \E k \in 2..Len(INSTANCE_FAMILIES[type[1]]) :
          /\ INSTANCE_FAMILIES[type[1]][k] = type
          /\ INSTANCE_FAMILIES[type[1]][k - 1] = smaller

\* smallest of its ladder, in no ladder, or malformed
HasNoSmallerSibling(type) ==
    \/ Len(type) # 2
    \/ \A f \in DOMAIN INSTANCE_FAMILIES :
          \A k \in 2..Len(INSTANCE_FAMILIES[f]) : INSTANCE_FAMILIES[f][k] # type

RecommendationsFor(instance) ==
    {k \in 1..Len(recommendations) :
        recommendations[k].resource_id = instance.instance_id}

\* C4: every recommendation goes exactly one step down the ladder of the
\* current type's family, and an instance whose type is the smallest of its
\* ladder, is in no ladder or is malformed gets no recommendation.
C4_OneStepDownSameFamily ==
    rs_pc = "done" =>
        /\ \A k \in 1..Len(recommendations) :
              IsOneStepDown(recommendations[k].recommended_type,
                            recommendations[k].current_type)
        /\ \A i \in 1..Len(running_instances) :
              HasNoSmallerSibling(running_instances[i].instance_type)
                  => RecommendationsFor(running_instances[i]) = {}

\* an idle instance: the CPU test alone would recommend a downsize
IsIdle(instance) ==
    /\ instance.metric_ok
    /\ instance.datapoints # <<>>
    /\ IsUnderutilized(instance.datapoints, cpu_threshold)

\* the analysis returned a recommendation, and passed over an idle instance
\* that has no smaller sibling
C4_Witness ==
    /\ rs_pc = "done"
    /\ recommendations # <<>>
    /\ \E i \in 1..Len(running_instances) :
          /\ IsIdle(running_instances[i])
          /\ HasNoSmallerSibling(running_instances[i].instance_type)

\* the sum of the hourly averages of an instance's window
SumOfAverages(instance) ==
    SumSeq([k \in 1..Len(instance.datapoints) |->
               instance.datapoints[k].Average])

\* some datapoint of the window reaches the 80% guard
IsBursty(instance) ==
    \E k \in 1..Len(instance.datapoints) :
        instance.datapoints[k].Maximum >= 80

\* the average of the window is strictly below the threshold
HasLowAverage(instance) ==
    /\ instance.datapoints # <<>>
    /\ SumOfAverages(instance) < cpu_threshold * Len(instance.datapoints)

\* C17: a running instance is recommended a downsize only if the average CPU
\* of its window is strictly below cpu_threshold and every maximum is
\* strictly below 80; a bursty instance with a low average gets none, and an
\* instance without datapoints gets none while the analysis still returns.
C17_DownsizeOnlyWhenIdleAndCalm ==
    rs_pc = "done" =>
        \A i \in 1..Len(running_instances) :
            LET instance == running_instances[i]
            IN  /\ RecommendationsFor(instance) # {}
                      => /\ HasLowAverage(instance)
                         /\ ~IsBursty(instance)
                /\ HasLowAverage(instance) /\ IsBursty(instance)
                      => RecommendationsFor(instance) = {}
                /\ instance.datapoints = <<>>
                      => RecommendationsFor(instance) = {}

\* the analysis returned a recommendation for a calm idle instance and none
\* for a bursty one of a type that has a smaller sibling
C17_Witness ==
    /\ rs_pc = "done"
    /\ \E i, j \in 1..Len(running_instances) :
          /\ RecommendationsFor(running_instances[i]) # {}
          /\ HasLowAverage(running_instances[j])
          /\ IsBursty(running_instances[j])
          /\ ~HasNoSmallerSibling(running_instances[j].instance_type)
          /\ RecommendationsFor(running_instances[j]) = {}

-----------------------------------------------------------------------------
(* Properties of the anomaly detection.                                    *)

\* the records of the result, each with the series of its service
ResultRecords ==
    IF an_pc # "done" THEN {}
    ELSE UNION {
           {[costs |-> CostsOf(historical_data, anomaly_result.anomalies[k].service),
             rec   |-> anomaly_result.anomalies[k].records[j]] :
                j \in 1..Len(anomaly_result.anomalies[k].records)} :
           k \in 1..Len(anomaly_result.anomalies)}

\* C6: every anomaly record has for baseline the mean of the whole series of
\* its service, and for deviation amount / baseline when that mean is above 0
\* and 0 when it is not.
C6_DeviationIsAmountOverMean ==
    \A r \in ResultRecords :
        LET total == SumSeq(r.costs)
            days == Len(r.costs)
        IN  /\ r.rec.baseline[1] * days = total * r.rec.baseline[2]
            /\ IF total > 0
               THEN r.rec.deviation[1] * total
                        = r.rec.amount * days * r.rec.deviation[2]
               ELSE r.rec.deviation[1] = 0

\* records were emitted both over a positive mean, with a deviation that is
\* not 0, and over a mean that is not positive
C6_Witness ==
    /\ \E r \in ResultRecords : SumSeq(r.costs) > 0 /\ r.rec.deviation[1] > 0
    /\ \E r \in ResultRecords : SumSeq(r.costs) < 0 /\ r.rec.amount # 0

\* C7: a service with fewer than 14 data points never has an anomaly entry,
\* in the detected points or in the result, and the detection does not raise
\* on account of it: with only such services it ends without an error.
C7_ShortSeriesSkipped ==
    /\ \A k \in 1..Len(anomalies_by_service) :
          Len(CostsOf(historical_data, anomalies_by_service[k].service))
              >= MinPoints
    /\ an_pc = "done" =>
          \A k \in 1..Len(anomaly_result.anomalies) :
              Len(CostsOf(historical_data, anomaly_result.anomalies[k].service))
                  >= MinPoints
    /\ (\A k \in 1..Len(historical_data) :
            Len(historical_data[k].costs) < MinPoints) => an_pc # "raised"

\* the detection is over, with a service of 13 points passed over and
\* anomalies reported for another service
C7_Witness ==
    /\ an_pc = "done"
    /\ \E k \in 1..Len(historical_data) :
          Len(historical_data[k].costs) = MinPoints - 1
    /\ anomaly_result.summary.total_anomalies > 0

\* C13: for the 90-day series that is 10 every day but 500 on day 45 and 12
\* on day 46, the record of day 45 has a baseline of about 10 and a deviation
\* of about 50 (both taken within 5%).
C13_ScenarioBaselineAndDeviation ==
    \A r \in ResultRecords :
        (r.costs = ScenarioSeries /\ r.rec.days_ago = DefaultDays \div 2) =>
            /\ FracLess(Frac(95, 10), r.rec.baseline)
            /\ FracLess(r.rec.baseline, Frac(105, 10))
            /\ FracLess(Frac(475, 10), r.rec.deviation)
            /\ FracLess(r.rec.deviation, Frac(525, 10))

\* C14: an anomaly record is emitted only for a day of a service whose
\* baseline is above 0: a service whose baseline is 0 or less has no record
\* in the result, whatever days the outlier model flags.
C14_RecordOnlyOverPositiveBaseline ==
    \A r \in ResultRecords :
        /\ SumSeq(r.costs) > 0
        /\ FracLess(FracZero, r.rec.baseline)

\* C10: with a sensitivity outside the documented range no cost data is
\* collected and no analysis step runs: the call is refused at its start.
C10_InvalidSensitivityRefusedFirst ==
    ~InDocumentedRange(sensitivity) =>
        /\ an_pc \in {"idle", "call", "raised"}
        /\ historical_data = <<>>

-----------------------------------------------------------------------------
(* Properties of the RI and Savings-Plans advice.                          *)

\* the recommendations get_ri_recommendations has returned so far
RiRecommendations ==
    IF ri_pc \in {"sp", "combine", "done", "raised"}
    THEN ri_recommendations.recommendations ELSE <<>>

\* the recommendations get_savings_plan_recommendations has returned so far
SpRecommendations ==
    IF ri_pc \in {"combine", "done", "raised"}
    THEN sp_recommendations.recommendations ELSE <<>>

\* the patterns the first call of analyze_usage_patterns found
FirstPatterns ==
    analyze_usage_patterns(ce_usage.ok[1], ce_usage, lookback_period)

FirstPatternSet ==
    LET patterns == FirstPatterns
    IN  IF patterns = <<>> THEN {}
        ELSE Range(patterns.EC2) \cup Range(patterns.RDS)

\* C5: no Reserved-Instance and no Savings-Plan recommendation returned by
\* RIOptimizer carries confidence Low, the estimate made when the provider
\* call fails included; a recommendation is built from a pattern whose
\* confidence is not Low.
C5_NoLowConfidenceRecommendation ==
    LET ri == RiRecommendations
        sp == SpRecommendations
        patterns == FirstPatternSet
    IN  /\ \A k \in 1..Len(ri) :
              /\ ri[k].confidence \in {"High", "Medium"}
              /\ \E p \in patterns :
                    /\ p.recommendation_confidence # "Low"
                    /\ p.instance_type = ri[k].instance_type
                    /\ p.region = ri[k].region
                    /\ p.service = ri[k].service
        /\ \A k \in 1..Len(sp) : sp[k].confidence \in {"High", "Medium"}
        /\ ri_pc = "done" =>
              /\ ri_sp_result.ri_recommendations = ri
              /\ ri_sp_result.sp_recommendations = sp

\* the advice is complete, a Low pattern that amounts to a whole instance
\* was among the usage found, recommendations were made from the others, and
\* the Savings Plan is the estimate made after the provider call failed
C5_Witness ==
    /\ ri_pc = "done"
    /\ \E p \in FirstPatternSet :
          /\ p.service = "EC2"
          /\ p.recommendation_confidence = "Low"
          /\ RecommendedCount(p) >= 1
    /\ RiRecommendations # <<>>
    /\ ~ce_savings_plans.ok
    /\ SpRecommendations # <<>>

\* the Savings-Plans call has returned
SpReturned == ri_pc \in {"combine", "done", "raised"}

\* the patterns the second call of analyze_usage_patterns would find
SecondPatterns ==
    analyze_usage_patterns(ce_usage.ok[2], ce_usage, lookback_period)

RiReturned == ri_pc \in {"sp", "combine", "done", "raised"}

\* the overall confidence is the one the rule gives for the batch
FollowsBatchRule(overall, recs) ==
    LET all_high == \A k \in 1..Len(recs) : recs[k].confidence = "High"
        any_medium == \E k \in 1..Len(recs) : recs[k].confidence = "Medium"
    IN  /\ overall = "High" <=> all_high
        /\ overall = "Medium" <=> (~all_high /\ any_medium)
        /\ overall = "Low" <=> (~all_high /\ ~any_medium)

ReportedUsage ==
    {<<ce_usage.ec2[k], "EC2">> : k \in DOMAIN ce_usage.ec2}
        \cup {<<ce_usage.rds[k], "RDS">> : k \in DOMAIN ce_usage.rds}

\* the patterns get_ri_recommendations has just been given, each with the
\* daily usage it was computed from
PatternsWithUsage ==
    IF ri_pc = "sp" /\ ce_usage.ok[1]
    THEN LET analysed ==
                 {[daily_usage |-> DailyUsage(u[1].amounts),
                   patterns |-> ConsistentUsage(u[1], u[2], lookback_period)] :
                      u \in ReportedUsage}
         IN  {[daily_usage |-> a.daily_usage, pattern |-> a.patterns[1]] :
                 a \in {b \in analysed : b.patterns # <<>>}}
    ELSE {}

LevelRank(level) ==
    CASE level = "High" -> 2 [] level = "Medium" -> 1 [] OTHER -> 0

\* where the coefficient of variation lies among the bounds 0.1 and 0.2:
\* below both, between them, or at least 0.2
VariationBand(daily_usage) ==
    IF CvBelow(daily_usage, 1, 10) THEN 0
    ELSE IF CvBelow(daily_usage, 2, 10) THEN 1 ELSE 2

AtLeastAsConsistent(p, q) == ~FracLess(p.consistency, q.consistency)

\* the patterns found, each with the band of its variation
PatternsWithBand ==
    {[band |-> VariationBand(a.daily_usage), pattern |-> a.pattern] :
        a \in PatternsWithUsage}

IsRecommendationFor(rec, pattern) ==
    /\ rec.service = pattern.service
    /\ rec.instance_type = pattern.instance_type
    /\ rec.region = pattern.region

\* count is the whole number of instances in avg_daily_usage hours a day:
\* count <= avg_daily_usage / 24 < count + 1
IsFloorOfDailyInstances(count, avg_daily_usage) ==
    /\ count * 24 * avg_daily_usage[2] <= avg_daily_usage[1]
    /\ avg_daily_usage[1] < (count + 1) * 24 * avg_daily_usage[2]

\* C19: every Reserved-Instance recommendation has recommended_count equal
\* to floor(avg_daily_usage / 24) of its pattern and at least 1; a pattern
\* whose average daily usage is below 24 hours gets no recommendation.
C19_CountIsFloorOfDailyInstances ==
    LET ri == RiRecommendations
        patterns == FirstPatternSet
    IN  RiReturned =>
            /\ \A k \in 1..Len(ri) :
                  /\ ri[k].recommended_count >= 1
                  /\ \E p \in patterns :
                        /\ IsRecommendationFor(ri[k], p)
                        /\ IsFloorOfDailyInstances(ri[k].recommended_count,
                                                   p.avg_daily_usage)
            /\ \A p \in patterns :
                  p.avg_daily_usage[1] < 24 * p.avg_daily_usage[2]
                      => \A k \in 1..Len(ri) : ~IsRecommendationFor(ri[k], p)

\* a pattern of whole instances and a fraction was recommended rounded
\* down, and a confident pattern of half an instance was dropped
C19_Witness ==
    LET ri == RiRecommendations
        patterns == FirstPatternSet
    IN  /\ RiReturned
        /\ \E k \in 1..Len(ri) : \E p \in patterns :
              /\ IsRecommendationFor(ri[k], p)
              /\ ri[k].recommended_count * 24 * p.avg_daily_usage[2]
                     < p.avg_daily_usage[1]
        /\ \E p \in patterns :
              /\ p.recommendation_confidence # "Low"
              /\ p.avg_daily_usage[1] < 24 * p.avg_daily_usage[2]
              /\ \A k \in 1..Len(ri) : ~IsRecommendationFor(ri[k], p)

\* the days with usage a pattern was built from: the numerator of its
\* consistency days_used / lookback_period
DaysUsed(pattern) == pattern.consistency[1]

\* C20: whatever the lookback period, no usage pattern and no
\* Reserved-Instance recommendation is produced for an (instance type,
\* region) pair with fewer than 14 days of usage; the pair is left out and
\* the call returns.
C20_NoPatternUnderFourteenDays ==
    LET ri == RiRecommendations
        patterns == FirstPatternSet
    IN  RiReturned =>
            /\ \A p \in patterns : DaysUsed(p) >= MinPoints
            /\ \A k \in 1..Len(ri) :
                  \A p \in patterns :
                      IsRecommendationFor(ri[k], p) => DaysUsed(p) >= MinPoints

\* C29: get_ri_and_sp_recommendations never raises and always returns its
\* dictionary; when the usage patterns could not be retrieved the
\* dictionary holds no Reserved-Instance recommendation, no Savings-Plan
\* estimate and zero savings.
C29_AdviceAlwaysReturned ==
    /\ ri_pc # "raised"
    /\ ri_pc = "done" /\ ~ce_usage.ok[1] /\ ~ce_usage.ok[2]
                      /\ ~ce_savings_plans.ok
          => /\ ri_sp_result.ri_recommendations = <<>>
             /\ ri_sp_result.sp_recommendations = <<>>
             /\ ri_sp_result.total_monthly_savings = 0
             /\ ri_sp_result.total_annual_savings = 0

\* C30: a batch of get_ri_recommendations without any recommendation has
\* overall confidence Low, never High, whether the usage data was missing
\* or was there with no pattern that qualified.
C30_EmptyBatchIsLow ==
    RiReturned /\ ri_recommendations.recommendations = <<>>
        => ri_recommendations.confidence = "Low"

-----------------------------------------------------------------------------
(* Properties of the optimization recommendations.                         *)

SavingsSum(recs) == SumSeq([k \in 1..Len(recs) |-> recs[k].savings])

MonthlySavingsSum(recs) ==
    SumSeq([k \in 1..Len(recs) |-> recs[k].monthly_savings])

\* C8: in the result of generate_optimization_recommendations the total is
\* the sum of the four subtotals, each subtotal is the sum of the savings of
\* its own list, and a category that is switched off has an empty list and a
\* subtotal of 0, whatever the four flags are.
C8_TotalIsSumOfSubtotals ==
    opt_pc = "done" =>
        LET summary == opt_result.summary
        IN  /\ summary.total_potential_savings =
                   summary.ec2_savings + summary.resource_savings
                       + summary.ri_savings + summary.savings_plans_savings
            /\ summary.ec2_savings = SavingsSum(opt_result.ec2_recommendations)
            /\ summary.resource_savings =
                   SavingsSum(opt_result.resource_recommendations)
            /\ summary.ri_savings =
                   MonthlySavingsSum(opt_result.ri_recommendations)
            /\ summary.savings_plans_savings =
                   MonthlySavingsSum(opt_result.savings_plans_recommendations)
            /\ ~opt_flags.analyze_ec2 =>
                   /\ opt_result.ec2_recommendations = <<>>
                   /\ summary.ec2_savings = 0
            /\ ~opt_flags.analyze_resources =>
                   /\ opt_result.resource_recommendations = <<>>
                   /\ summary.resource_savings = 0
            /\ ~opt_flags.analyze_reservations =>
                   /\ opt_result.ri_recommendations = <<>>
                   /\ summary.ri_savings = 0
            /\ ~opt_flags.analyze_savings_plans =>
                   /\ opt_result.savings_plans_recommendations = <<>>
                   /\ summary.savings_plans_savings = 0

\* a finished run with right-sizing switched off on an account that has
\* instances to resize, and the three other categories on and not empty
C8_Witness ==
    /\ opt_pc = "done"
    /\ ~opt_flags.analyze_ec2
    /\ analyze_ec2_right_sizing(opt_account.running, DefaultCpuThreshold) # <<>>
    /\ opt_result.resource_recommendations # <<>>
    /\ opt_result.ri_recommendations # <<>>
    /\ opt_result.savings_plans_recommendations # <<>>
    /\ opt_result.summary.savings_plans_savings > 0
    /\ opt_result.summary.total_potential_savings > 0

\* C9: every unused-resource, RI and Savings-Plans recommendation that is
\* emitted, by the analyses of optimization_recommendations and by
\* RIOptimizer, has strictly positive monthly savings.
C9_EmittedSavingsPositive ==
    /\ opt_pc # "idle" =>
          /\ \A k \in 1..Len(opt_result.resource_recommendations) :
                opt_result.resource_recommendations[k].savings > 0
          /\ \A k \in 1..Len(opt_result.ri_recommendations) :
                opt_result.ri_recommendations[k].monthly_savings > 0
          /\ \A k \in 1..Len(opt_result.savings_plans_recommendations) :
                opt_result.savings_plans_recommendations[k].monthly_savings > 0
    /\ \A k \in 1..Len(RiRecommendations) :
          RiRecommendations[k].monthly_savings > 0
    /\ \A k \in 1..Len(SpRecommendations) :
          SpRecommendations[k].estimated_monthly_savings > 0

-----------------------------------------------------------------------------
(* Properties of the unused-instance analysis.                             *)

\* the listed instance an entry of unused_instances was made for
InstanceOfEntry(entry) ==
    ec2_regions[entry.resource_id[1]].instances[entry.resource_id[2]]

\* the instance has an entry in unused_instances
IsFlagged(instance) ==
    \E k \in 1..Len(unused_instances) :
        unused_instances[k].resource_id = instance.id

\* the monthly cost of the volumes attached to an instance
StorageCost(instance, region) ==
    SumSeq([k \in 1..Len(instance.volumes) |->
               estimate_ebs_monthly_cost(instance.volumes[k].size,
                                         instance.volumes[k].volume_type,
                                         region)])

\* C21: every stopped instance that analyze_ec2_instances flags carries as
\* estimated monthly cost the storage cost of its attached volumes (rate
\* per GB-month of the volume type, times the size, times the regional
\* multiplier), not the compute cost of its instance type.
C21_StoppedCostIsStorageCost ==
    \A k \in 1..Len(unused_instances) :
        unused_instances[k].state = "stopped" =>
            unused_instances[k].estimated_monthly_cost =
                StorageCost(InstanceOfEntry(unused_instances[k]),
                            unused_instances[k].region)

\* a running instance that by its own metric is to be flagged
IsQuiet(instance) ==
    /\ instance.state = "running"
    /\ instance.metric_ok
    /\ instance.datapoints # <<>>
    /\ IsUnusedCpu(instance.datapoints)

\* C22: a CPU-metric query that fails for one running instance makes the
\* analysis skip that instance only: when the call returns, every stopped
\* instance and every running instance of little CPU use is flagged, in
\* every region whose instances could be listed.
C22_MetricFailureSkipsOnlyItsInstance ==
    ura_pc = "done" =>
        \A r \in 1..Len(ec2_regions) :
            ec2_regions[r].list_ok =>
                \A k \in 1..Len(ec2_regions[r].instances) :
                    LET instance == ec2_regions[r].instances[k]
                    IN  instance.state = "stopped" \/ IsQuiet(instance)
                            => IsFlagged(instance)

\* the state-transition reason of the instance holds a date that parses
HasStopDate(instance) ==
    /\ instance.state_transition_reason.brackets
    /\ instance.state_transition_reason.parses

\* C24: a stopped instance whose state-transition reason holds no date that
\* parses is entered with days_unused = lookback_period and last_used =
\* 'Unknown', whatever was processed before it.
C24_NoStopDateMeansUnknown ==
    \A k \in 1..Len(unused_instances) :
        (unused_instances[k].state = "stopped"
            /\ ~HasStopDate(InstanceOfEntry(unused_instances[k])))
        => /\ unused_instances[k].days_unused = analyzer_lookback
           /\ unused_instances[k].last_used = "Unknown"

-----------------------------------------------------------------------------
(* Properties of the background tasks.                                     *)

\* thread t was started through run_task_thread and has set its result
IsRunTaskThread(t) ==
    /\ t \in DOMAIN tasks
    /\ tasks[t].via = "web_ui"
    /\ task_pc[t] \in {"run", "finish", "except", "ended"}

\* the result stored for the task type of thread t is final
IsSettled(t) ==
    /\ t \in DOMAIN tasks
    /\ tasks[t].task_type \in DOMAIN task_results
    /\ task_results[tasks[t].task_type].status \in {"completed", "error"}

\* C25: every task started through run_task_thread eventually has status
\* 'completed' or 'error' in task_results; the status does not stay
\* 'running' when the thread has ended, the case of run_dashboard exiting
\* for want of a usable profile included.
C25_TaskEventuallySettles ==
    \A t \in 1..MaxTasks : IsRunTaskThread(t) ~> IsSettled(t)

\* two tasks were started through run_task_thread, neither of them exits,
\* and both threads have ended
BothFinished ==
    /\ Len(tasks) = 2
    /\ \A t \in 1..Len(tasks) :
          /\ tasks[t].via = "web_ui"
          /\ tasks[t].profiles_usable
          /\ task_pc[t] = "ended"

\* C26: after two tasks that ran concurrently in run_task_thread have both
\* finished, sys.stdout is the stream it was before either started, and the
\* output stored for a task type holds only what a task of that type
\* printed.
C26_StdoutRestoredAndOutputOwn ==
    BothFinished =>
        /\ sys_stdout = OriginalStdout
        /\ \A task_type \in DOMAIN task_results :
              \A k \in 1..Len(task_results[task_type].output) :
                  tasks[task_results[task_type].output[k]].task_type
                      = task_type

\* C27: once a task was started through run_task of api.py, task_status for
\* its task type does not report 'not_found', and when its thread has ended
\* it reports 'completed' or 'error'.
C27_StartedTaskIsReported ==
    \A t \in 1..Len(tasks) :
        tasks[t].via = "api" =>
            /\ task_pc[t] # "idle"
                  => task_status(tasks[t].task_type).status # "not_found"
            /\ task_pc[t] = "ended"
                  => task_status(tasks[t].task_type).status
                         \in {"completed", "error"}

-----------------------------------------------------------------------------
vars == <<dashVars, rsVars, anVars, riVars, optVars, uraVars, taskVars>>

\* the dashboard run alone
InitDash == DashInit /\ RsIdle /\ AnIdle /\ RiIdle /\ OptIdle /\ UraIdle /\ TaskIdle

SpecDash == InitDash /\ [][DashNext]_vars

\* the right-sizing analysis alone
InitRightSizing == RsInit /\ DashIdle /\ AnIdle /\ RiIdle /\ OptIdle /\ UraIdle /\ TaskIdle

SpecRightSizing == InitRightSizing /\ [][RsNext]_vars

\* the anomaly detection alone
InitAnomaly == AnInit /\ DashIdle /\ RsIdle /\ RiIdle /\ OptIdle /\ UraIdle /\ TaskIdle

SpecAnomaly == InitAnomaly /\ [][AnNext]_vars

\* get_ri_and_sp_recommendations alone
InitRI == RiInit /\ DashIdle /\ RsIdle /\ AnIdle /\ OptIdle /\ UraIdle /\ TaskIdle

SpecRI == InitRI /\ [][RiNext]_vars

\* generate_optimization_recommendations alone
InitOptimize == OptInit /\ DashIdle /\ RsIdle /\ AnIdle /\ RiIdle /\ UraIdle /\ TaskIdle

SpecOptimize == InitOptimize /\ [][OptNext]_vars

\* the unused-instance analysis alone
InitUnused ==
    UraInit /\ DashIdle /\ RsIdle /\ AnIdle /\ RiIdle /\ OptIdle /\ TaskIdle

SpecUnused == InitUnused /\ [][UraNext]_vars

\* the background tasks alone; every started thread gets to run
InitTasks ==
    TaskInit /\ DashIdle /\ RsIdle /\ AnIdle /\ RiIdle /\ OptIdle /\ UraIdle

SpecTasks ==
    /\ InitTasks
    /\ [][TaskNext]_vars
    /\ \A t \in 1..MaxTasks : WF_vars(t \in DOMAIN tasks /\ ThreadStep(t))

Init ==
    \/ InitDash \/ InitRightSizing \/ InitAnomaly \/ InitRI \/ InitOptimize
    \/ InitUnused \/ InitTasks

Next ==
    \/ DashNext \/ RsNext \/ AnNext \/ RiNext \/ OptNext \/ UraNext
    \/ TaskNext

Spec == Init /\ [][Next]_vars
=============================================================================
